---- MODULE Spec2Model ----
(***************************************************************************)
\* Product management service: the product table (PostgreSQL repository),
\* the blob store of product images, and the orchestrator operations
\* CreateProduct, GetProduct, UpdateProduct, DeleteProduct, UploadImage
\* and DeleteImage.  Every request is a process that advances one store or
\* blob call at a time, so that requests interleave at call granularity.
(***************************************************************************)
EXTENDS Integers, Sequences, FiniteSets, TLC

VARIABLES rows, idSeq, now, blobs, proc, started, faults, workload

vars == <<rows, idSeq, now, blobs, proc, started, faults, workload>>

----------------------------------------------------------------------------
\* Bounds of the exploration

MaxId == 2
MaxReqs == 3
MaxProcs == 2
MaxFaults == 1

Procs == 1..MaxProcs
Ids == 1..MaxId

----------------------------------------------------------------------------
\* Go pointers (*string, *int, ...): nil or a pointer to one value

Nil == <<>>
Ptr(x) == <<x>>
Deref(p) == p[1]

\* Strings that the code takes apart are sequences of tokens; "" is <<>>
EmptyString == <<>>

\* fmt.Sprintf("%d", id)
IdStr(i) == IF i = 1 THEN "1" ELSE IF i = 2 THEN "2" ELSE IF i = 3 THEN "3"
            ELSE IF i = 4 THEN "4" ELSE "n"

----------------------------------------------------------------------------
\* Input domains

SKUs == {"SKU-001", "SKU-002"}
Variants == {1, 2}

UpdatableFields == {"sku", "name", "description", "price", "stock",
                    "category", "status", "image_url"}

\* cfg.Storage.BaseURL = "http://localhost:8080/uploads", followed by the
\* "/" that GetURL inserts
BaseURL == <<"http://", "localhost:8080", "/uploads/">>

ExternalURL == <<"https://", "placehold.co/600x400">>

\* file service: products/{id}/{filename}
ProductImagePath(idStr, filename) == <<"products/", idStr, "/">> \o filename

\* fmt.Sprintf("product-%d-image%s", id, ext)
UniqueFilename(id, ext) == <<"product-", IdStr(id), "-image", ext>>

\* LocalStorage.GetURL: baseURL + "/" + cleanPath
GetURL(path) == BaseURL \o path

\* decimal.Decimal with two fraction digits, NUMERIC(10, 2)
Decimal(units, hundredths) == [units |-> units, hundredths |-> hundredths]

\* decimal.Decimal comparisons; hundredths are in 0..99, so that -0.01 is
\* Decimal(-1, 99)
LessThan(a, b) ==
    a.units < b.units \/ (a.units = b.units /\ a.hundredths < b.hundredths)

\* GreaterThan that holds for equal values too
GreaterThanOrEqual(a, b) == ~ LessThan(a, b)

GreaterThan(a, b) == LessThan(b, a)

Zero == Decimal(0, 0)

\* a Go int (64 bits, two's complement) kept as hi * 2^58 + lo, with
\* -32 <= hi < 32 and lo small: enough to multiply by a limit of at most 100
\* the way the machine does
GoInt(hi, lo) == [hi |-> hi, lo |-> lo]

IsNegative(n) == n.hi < 0 \/ (n.hi = 0 /\ n.lo < 0)

IsZero(n) == n.hi = 0 /\ n.lo = 0

\* hi modulo 2^6, read as a signed 6-bit number
Wrap(hi) == ((hi + 32) % 64) - 32

\* (n - 1) * limit in 64-bit arithmetic
Offset(n, limit) == GoInt(Wrap(n.hi * limit), (n.lo - 1) * limit)

\* a float64 of a query parameter: a number with two decimals, or NaN
Float(units, hundredths) ==
    [nan |-> FALSE, units |-> units, hundredths |-> hundredths]

NaN == [nan |-> TRUE, units |-> 0, hundredths |-> 0]

\* a < b on float64: false when either is NaN
FloatLess(a, b) == ~ a.nan /\ ~ b.nan /\ LessThan(a, b)

\* the value a request carries for a field, by variant
Val(f, v, id) ==
    CASE f = "sku"         -> IF v = 1 THEN "SKU-001" ELSE "SKU-002"
      [] f = "name"        -> IF v = 1 THEN "Original Name" ELSE "Updated Name"
      [] f = "description" -> IF v = 1 THEN "Test Description" ELSE "Other"
      [] f = "price"       -> IF v = 1 THEN Decimal(10000, 0)
                                       ELSE Decimal(99999999, 99)
      [] f = "stock"       -> IF v = 1 THEN 100 ELSE 0
      [] f = "category"    -> IF v = 1 THEN "Electronics" ELSE "Books"
      [] f = "status"      -> IF v = 1 THEN "Active" ELSE "Inactive"
      [] f = "image_url"   -> IF v = 1
                              THEN GetURL(ProductImagePath(IdStr(id),
                                                           <<"old-image.jpg">>))
                              ELSE ExternalURL

----------------------------------------------------------------------------
\* Product Store: table products, id SERIAL, sku UNIQUE

\* CreateProductRequest, by variant
CreateRequest(sku, v) ==
    [SKU |-> sku, Name |-> Val("name", v, 0),
     Description |-> IF v = 1 THEN Nil ELSE Ptr(Val("description", v, 0)),
     Price |-> Val("price", v, 0), Stock |-> Val("stock", v, 0),
     Category |-> Val("category", v, 0), Status |-> Val("status", v, 0)]

\* the POST bodies that pass validation
CreateRequests == {CreateRequest(sku, v) : sku \in SKUs, v \in Variants}

\* CreateProductRequest -> productDomain.Product of CreateProduct
NewProduct(req) ==
    [SKU |-> req.SKU, Name |-> req.Name, Description |-> req.Description,
     Price |-> req.Price, Stock |-> req.Stock, Category |-> req.Category,
     Status |-> req.Status, ImageURL |-> Nil]

\* UpdateProductRequest carrying the fields F
UpdateRequest(id, F, v, s) ==
    [ID |-> id,
     SKU |-> IF "sku" \in F THEN Ptr(s) ELSE Nil,
     Name |-> IF "name" \in F THEN Ptr(Val("name", v, id)) ELSE Nil,
     Description |-> IF "description" \in F
                     THEN Ptr(Val("description", v, id)) ELSE Nil,
     Price |-> IF "price" \in F THEN Ptr(Val("price", v, id)) ELSE Nil,
     Stock |-> IF "stock" \in F THEN Ptr(Val("stock", v, id)) ELSE Nil,
     Category |-> IF "category" \in F THEN Ptr(Val("category", v, id)) ELSE Nil,
     Status |-> IF "status" \in F THEN Ptr(Val("status", v, id)) ELSE Nil,
     ImageURL |-> IF "image_url" \in F
                  THEN Ptr(Val("image_url", v, id)) ELSE Nil]

NoUpdate == UpdateRequest(0, {}, 1, "SKU-001")

\* every PUT body: an id and any subset of the updatable fields
PutBodies ==
    {UpdateRequest(id, F, v, Val("sku", v, id)) :
        id \in Ids, F \in SUBSET UpdatableFields, v \in Variants}

\* the PUT bodies sent while requests of all kinds interleave
MixedFieldSets == {{}, {"sku"}, {"image_url"}, {"name", "description"}}

MixedPutBodies ==
    {UpdateRequest(id, F, v, s) :
        id \in Ids, F \in MixedFieldSets, v \in Variants, s \in SKUs}

SkuTaken(tbl, sku, except) ==
    \E j \in DOMAIN tbl : j # except /\ tbl[j].sku = sku

\* Create without the UNIQUE constraint on sku
CreateNoUnique(tbl, seq, clock, newProduct) ==
    LET id == seq + 1
        row == [id |-> id, sku |-> newProduct.SKU, name |-> newProduct.Name,
                description |-> newProduct.Description,
                price |-> newProduct.Price, stock |-> newProduct.Stock,
                category |-> newProduct.Category, status |-> newProduct.Status,
                image_url |-> newProduct.ImageURL,
                created_at |-> clock, updated_at |-> clock]
    IN [err |-> "nil", rows |-> (id :> row) @@ tbl, product |-> Ptr(row)]

\* INSERT INTO products ... RETURNING id, created_at, updated_at.  The
\* sequence behind SERIAL advances whether or not the insert succeeds.
Create(tbl, seq, clock, newProduct) ==
    LET id == seq + 1
        row == [id |-> id, sku |-> newProduct.SKU, name |-> newProduct.Name,
                description |-> newProduct.Description,
                price |-> newProduct.Price, stock |-> newProduct.Stock,
                category |-> newProduct.Category, status |-> newProduct.Status,
                image_url |-> newProduct.ImageURL,
                created_at |-> clock, updated_at |-> clock]
    IN IF SkuTaken(tbl, newProduct.SKU, 0)
       THEN [err |-> "23505", rows |-> tbl, product |-> Nil]
       ELSE [err |-> "nil", rows |-> (id :> row) @@ tbl, product |-> Ptr(row)]

\* SELECT ... WHERE id = $1
GetByID(tbl, id) ==
    IF id \in DOMAIN tbl
    THEN [err |-> "nil", product |-> Ptr(tbl[id])]
    ELSE [err |-> "ErrNoRows", product |-> Nil]

\* GetBySKU that returns a row whatever its sku
GetBySKUAnyRow(tbl, sku) ==
    IF DOMAIN tbl # {}
    THEN [err |-> "nil", product |-> Ptr(tbl[CHOOSE j \in DOMAIN tbl : TRUE])]
    ELSE [err |-> "ErrNoRows", product |-> Nil]

\* SELECT ... WHERE sku = $1
GetBySKU(tbl, sku) ==
    IF \E j \in DOMAIN tbl : tbl[j].sku = sku
    THEN [err |-> "nil",
          product |-> Ptr(tbl[CHOOSE j \in DOMAIN tbl : tbl[j].sku = sku])]
    ELSE [err |-> "ErrNoRows", product |-> Nil]

\* AddAssignment that keeps the first assignment alone
AddAssignmentFirstOnly(updates, column, p) ==
    IF p # Nil /\ updates = <<>> THEN Append(updates, <<column, p>>)
    ELSE updates

\* the assignment list of Update, in the order the code appends to it
AddAssignment(updates, column, p) ==
    IF p # Nil THEN Append(updates, <<column, p>>) ELSE updates

\* Assignments that forgets the stock column
AssignmentsSkipStock(req) ==
    AddAssignment(
     AddAssignment(
      AddAssignment(
       AddAssignment(
        AddAssignment(
         AddAssignment(
          AddAssignment(<<>>, "sku", req.SKU),
          "name", req.Name),
         "description", req.Description),
        "price", req.Price),
       "category", req.Category),
      "status", req.Status),
     "image_url", req.ImageURL)

Assignments(req) ==
    AddAssignment(
     AddAssignment(
      AddAssignment(
       AddAssignment(
        AddAssignment(
         AddAssignment(
          AddAssignment(
           AddAssignment(<<>>, "sku", req.SKU),
           "name", req.Name),
          "description", req.Description),
         "price", req.Price),
        "stock", req.Stock),
       "category", req.Category),
      "status", req.Status),
     "image_url", req.ImageURL)

NullableColumns == {"description", "image_url"}

\* the value a column holds after SET column = $n
ColumnValue(column, p) ==
    IF column \in NullableColumns THEN p ELSE Deref(p)

RECURSIVE SetColumns(_, _)
SetColumns(row, updates) ==
    IF updates = <<>> THEN row
    ELSE SetColumns([row EXCEPT ![updates[1][1]] =
                        ColumnValue(updates[1][1], updates[1][2])],
                    Tail(updates))

AssignedSku(updates) ==
    {Deref(updates[i][2]) : i \in {k \in 1..Len(updates) : updates[k][1] = "sku"}}

\* Update that does not look at RowsAffected
UpdateIgnoresRowsAffected(tbl, clock, req) ==
    LET updates == Assignments(req)
    IN IF Len(updates) = 0 \/ req.ID \notin DOMAIN tbl
       THEN [err |-> "nil", rows |-> tbl]
       ELSE IF \E s \in AssignedSku(updates) : SkuTaken(tbl, s, req.ID)
       THEN [err |-> "23505", rows |-> tbl]
       ELSE [err |-> "nil",
             rows |-> [tbl EXCEPT ![req.ID] =
                         [SetColumns(tbl[req.ID], updates)
                            EXCEPT !.updated_at = clock]]]

\* Update that runs the statement even with an empty assignment list
UpdateAlwaysExecutes(tbl, clock, req) ==
    LET updates == Assignments(req)
    IN IF req.ID \notin DOMAIN tbl
       THEN [err |-> "ErrNoRows", rows |-> tbl]
       ELSE IF \E s \in AssignedSku(updates) : SkuTaken(tbl, s, req.ID)
       THEN [err |-> "23505", rows |-> tbl]
       ELSE [err |-> "nil",
             rows |-> [tbl EXCEPT ![req.ID] =
                         [SetColumns(tbl[req.ID], updates)
                            EXCEPT !.updated_at = clock]]]

\* Update without updated_at = NOW()
UpdateKeepsTimestamp(tbl, clock, req) ==
    LET updates == Assignments(req)
    IN IF Len(updates) = 0
       THEN [err |-> "nil", rows |-> tbl]
       ELSE IF req.ID \notin DOMAIN tbl
       THEN [err |-> "ErrNoRows", rows |-> tbl]
       ELSE IF \E s \in AssignedSku(updates) : SkuTaken(tbl, s, req.ID)
       THEN [err |-> "23505", rows |-> tbl]
       ELSE [err |-> "nil",
             rows |-> [tbl EXCEPT ![req.ID] = SetColumns(tbl[req.ID], updates)]]

\* UPDATE products SET <updates>, updated_at = NOW() WHERE id = $n
Update(tbl, clock, req) ==
    LET updates == Assignments(req)
    IN IF Len(updates) = 0
       THEN [err |-> "nil", rows |-> tbl]
       ELSE IF req.ID \notin DOMAIN tbl
       THEN [err |-> "ErrNoRows", rows |-> tbl]
       ELSE IF \E s \in AssignedSku(updates) : SkuTaken(tbl, s, req.ID)
       THEN [err |-> "23505", rows |-> tbl]
       ELSE [err |-> "nil",
             rows |-> [tbl EXCEPT ![req.ID] =
                         [SetColumns(tbl[req.ID], updates)
                            EXCEPT !.updated_at = clock]]]

\* DELETE FROM products WHERE id = $1
Delete(tbl, id) ==
    IF id \notin DOMAIN tbl
    THEN [err |-> "ErrNoRows", rows |-> tbl]
    ELSE [err |-> "nil", rows |-> [j \in DOMAIN tbl \ {id} |-> tbl[j]]]

\* the characters of a string
Chars(str) == [i \in 1..Len(str) |-> SubSeq(str, i, i)]

UpperCase == Chars("ABCDEFGHIJKLMNOPQRSTUVWXYZ")
LowerCase == Chars("abcdefghijklmnopqrstuvwxyz")

\* ILIKE compares without regard to case
Fold(c) ==
    IF \E i \in 1..Len(UpperCase) : UpperCase[i] = c
    THEN LowerCase[CHOOSE i \in 1..Len(UpperCase) : UpperCase[i] = c]
    ELSE c

FoldAll(cs) == [i \in 1..Len(cs) |-> Fold(cs[i])]

\* value LIKE pattern: % stands for any run of characters, _ for any one
RECURSIVE Like(_, _)
Like(value, pattern) ==
    IF pattern = <<>> THEN value = <<>>
    ELSE IF pattern[1] = "%"
    THEN Like(value, Tail(pattern))
         \/ (value # <<>> /\ Like(Tail(value), pattern))
    ELSE /\ value # <<>>
         /\ (pattern[1] = "_" \/ pattern[1] = value[1])
         /\ Like(Tail(value), Tail(pattern))

\* column ILIKE $n with the argument "%" + x + "%"
ILikeContains(value, x) ==
    Like(FoldAll(Chars(value)), FoldAll(Chars("%" \o x \o "%")))

\* decimal.NewFromFloat panics on NaN
CanConvert(p) == p = Nil \/ ~ Deref(p).nan

\* the WHERE clause of GetAll: one conjunct per filter field that is present
Where(row, filter) ==
    /\ filter.Name # Nil => ILikeContains(row.name, Deref(filter.Name))
    /\ filter.SKU # Nil => ILikeContains(row.sku, Deref(filter.SKU))
    /\ filter.Category # Nil =>
          ILikeContains(row.category, Deref(filter.Category))
    /\ filter.Status # Nil => row.status = Deref(filter.Status)
    /\ filter.MinPrice # Nil => ~ LessThan(row.price, Deref(filter.MinPrice))
    /\ filter.MaxPrice # Nil => ~ LessThan(Deref(filter.MaxPrice), row.price)

Selected(tbl, filter) == {id \in DOMAIN tbl : Where(tbl[id], filter)}

\* the columns whose order is the collation's, not modelled
TextColumns == {"sku", "name", "description", "category", "image_url"}

NumberColumns == {"id", "stock", "created_at", "updated_at"}

\* PostgreSQL refuses a negative LIMIT or OFFSET, a column the table does not
\* have and a direction that is neither ASC nor DESC
QueryFails(filter, column, direction) ==
    \/ filter.Limit < 0
    \/ IsNegative(Offset(filter.Page, filter.Limit))
    \/ column \notin TextColumns \cup NumberColumns \cup {"price", "status"}
    \/ direction \notin {"asc", "desc", "ASC", "DESC"}

\* row a sorts strictly before row b under ORDER BY column ASC
Before(a, b, column) ==
    CASE column = "price" -> LessThan(a.price, b.price)
      [] column = "status" -> a.status = "Active" /\ b.status = "Inactive"
      [] column \in TextColumns -> FALSE
      [] OTHER -> a[column] < b[column]

\* the orders ORDER BY column direction may return the rows ids in; rows
\* with equal keys come in any order
Orders(tbl, ids, column, direction) ==
    {s \in [1..Cardinality(ids) -> ids] :
        /\ \A i, j \in DOMAIN s : i # j => s[i] # s[j]
        /\ \A i, j \in DOMAIN s :
              i < j => IF direction \in {"desc", "DESC"}
                       THEN ~ Before(tbl[s[i]], tbl[s[j]], column)
                       ELSE ~ Before(tbl[s[j]], tbl[s[i]], column)}

Min(a, b) == IF a < b THEN a ELSE b

\* LIMIT limit OFFSET offset of a result
Page(order, limit, offset) ==
    IF offset.hi > 0 THEN <<>>
    ELSE SubSeq(order, offset.lo + 1, Min(offset.lo + limit, Len(order)))

\* sortBy and sortOrder of GetAll's query text
SortBy(filter) == IF filter.SortBy # "" THEN filter.SortBy ELSE "created_at"

SortOrder(filter) ==
    IF filter.SortOrder # "" THEN filter.SortOrder ELSE "DESC"

\* productRepositoryImpl.GetAll: every result the two queries may give
GetAll(tbl, filter) ==
    IF ~ CanConvert(filter.MinPrice) \/ ~ CanConvert(filter.MaxPrice)
    THEN {[err |-> "panic", products |-> <<>>, total |-> 0, order |-> <<>>]}
    ELSE IF QueryFails(filter, SortBy(filter), SortOrder(filter))
    THEN {[err |-> "internal", products |-> <<>>, total |-> 0, order |-> <<>>]}
    ELSE {[err |-> "nil",
           products |-> [i \in DOMAIN Page(s, filter.Limit,
                                            Offset(filter.Page, filter.Limit))
                           |-> tbl[Page(s, filter.Limit,
                                        Offset(filter.Page, filter.Limit))[i]]],
           total |-> Cardinality(Selected(tbl, filter)),
           order |-> s] :
          s \in Orders(tbl, Selected(tbl, filter),
                       SortBy(filter), SortOrder(filter))}

----------------------------------------------------------------------------
\* Blob Store (LocalStorage) and the file service in front of it

\* filepath.Clean on the strings that reach the store: a doubled slash
\* collapses, everything else is already clean
CleanToken(t) == IF t = "http://" THEN "http:/"
                 ELSE IF t = "https://" THEN "https:/" ELSE t

Clean(path) == [i \in 1..Len(path) |-> CleanToken(path[i])]

\* LocalStorage.Upload: os.Create + io.Copy under basePath, returns the
\* path relative to basePath
Upload(store, content, path) ==
    [err |-> "nil", blobs |-> (Clean(path) :> content) @@ store,
     path |-> Clean(path)]

\* LocalStorage.Delete: os.Remove, an absent file is not an error
StorageDelete(store, path) ==
    [err |-> "nil",
     blobs |-> [p \in DOMAIN store \ {Clean(path)} |-> store[p]]]

\* LocalStorage.Exists
Exists(store, path) == Clean(path) \in DOMAIN store

\* FileService.UploadProductImage
UploadProductImage(store, productID, content, filename) ==
    Upload(store, content, ProductImagePath(productID, filename))

\* FileService.GetFileURL
GetFileURL(path) == GetURL(Clean(path))

\* FileService.DeleteFile
DeleteFile(store, path) == StorageDelete(store, path)

\* the blob that GET /uploads/* serves for an image reference, if any
ServedBlob(url) ==
    IF Len(url) > Len(BaseURL) /\ SubSeq(url, 1, Len(BaseURL)) = BaseURL
    THEN Ptr(Clean(SubSeq(url, Len(BaseURL) + 1, Len(url))))
    ELSE Nil

----------------------------------------------------------------------------
\* LocalStorage on the file system.  A path is the sequence of its elements
\* between slashes, with "/" as first element when it is rooted; the file
\* system maps the path of every file and directory, relative to the store's
\* base path, to its content.

\* filepath.Abs(cfg.Storage.BasePath) with BasePath "./storage"
BasePath == <<"/", "app", "storage">>

\* the entry of a directory
Directory == 0

\* filepath.Clean: "." and empty elements go, ".." takes the element before
\* it away, "/.." is "/", and the ".." at the head of a relative path stay
RECURSIVE FilepathClean(_)
FilepathClean(path) ==
    IF path = <<>> THEN <<>>
    ELSE LET done == FilepathClean(SubSeq(path, 1, Len(path) - 1))
             e == path[Len(path)]
             last == IF done = <<>> THEN "" ELSE done[Len(done)]
         IN IF e \in {"", "."} \/ (e = "/" /\ done # <<>>) THEN done
            ELSE IF e # ".." THEN Append(done, e)
            ELSE IF last = "/" THEN done
            ELSE IF last \in {"", ".."} THEN Append(done, "..")
            ELSE SubSeq(done, 1, Len(done) - 1)

\* absFullPath: filepath.Join of the base path and the cleaned path, which
\* cleans the elements joined by a slash
AbsFullPath(path) == FilepathClean(BasePath \o FilepathClean(path))

\* the string of an absolute path
RECURSIVE PathString(_)
PathString(abs) ==
    IF Len(abs) <= 1 THEN "/"
    ELSE IF Len(abs) = 2 THEN "/" \o abs[2]
    ELSE PathString(SubSeq(abs, 1, Len(abs) - 1)) \o "/" \o abs[Len(abs)]

\* strings.HasPrefix
StringsHasPrefix(s, prefix) ==
    Len(s) >= Len(prefix) /\ SubSeq(s, 1, Len(prefix)) = prefix

\* filepath.Rel of two absolute paths: ".." for what is left of the base
\* after the common elements, then what is left of the target
RECURSIVE Rel(_, _)
Rel(base, target) ==
    IF base # <<>> /\ target # <<>> /\ Head(base) = Head(target)
    THEN Rel(Tail(base), Tail(target))
    ELSE [i \in 1..Len(base) |-> ".."] \o target

\* a component below the last of the path is a file: ENOTDIR
NotDir(fs, abs) ==
    \E k \in 1..(Len(abs) - 1) :
        LET d == Rel(BasePath, SubSeq(abs, 1, k))
        IN d \in DOMAIN fs /\ fs[d] # Directory

\* LocalStorage.Upload: the prefix test, os.MkdirAll, os.Create and io.Copy
LocalUpload(fs, content, path) ==
    LET absFullPath == AbsFullPath(path)
        relPath == Rel(BasePath, absFullPath)
        dirs == {Rel(BasePath, SubSeq(absFullPath, 1, k)) :
                    k \in 1..(Len(absFullPath) - 1)}
        Failed(e) == [err |-> e, blobs |-> fs, path |-> <<>>]
    IN IF ~StringsHasPrefix(PathString(absFullPath), PathString(BasePath))
       THEN Failed("invalid file path")
       ELSE IF NotDir(fs, absFullPath)
       THEN Failed("failed to create directory")
       ELSE IF relPath \in DOMAIN fs /\ fs[relPath] = Directory
       THEN Failed("failed to create file")
       ELSE [err |-> "nil",
             blobs |-> (relPath :> content)
                         @@ [d \in dirs |-> Directory] @@ fs,
             path |-> relPath]

\* LocalStorage.Delete that reports an absent file
LocalDeleteStrict(fs, path) ==
    LET absFullPath == AbsFullPath(path)
        relPath == Rel(BasePath, absFullPath)
    IN IF ~StringsHasPrefix(PathString(absFullPath), PathString(BasePath))
       THEN [err |-> "invalid file path", blobs |-> fs]
       ELSE IF relPath \notin DOMAIN fs
       THEN [err |-> "failed to delete file", blobs |-> fs]
       ELSE [err |-> "nil",
             blobs |-> [k \in DOMAIN fs \ {relPath} |-> fs[k]]]

\* LocalStorage.Delete: the prefix test and os.Remove, which takes a file or
\* an empty directory away; of its errors only ENOENT is "already deleted"
LocalDelete(fs, path) ==
    LET absFullPath == AbsFullPath(path)
        relPath == Rel(BasePath, absFullPath)
        Below(k) == LET abs == FilepathClean(BasePath \o k)
                    IN /\ Len(abs) > Len(absFullPath)
                       /\ SubSeq(abs, 1, Len(absFullPath)) = absFullPath
        NotEmpty == \E k \in DOMAIN fs : Below(k)
    IN IF ~StringsHasPrefix(PathString(absFullPath), PathString(BasePath))
       THEN [err |-> "invalid file path", blobs |-> fs]
       ELSE IF NotDir(fs, absFullPath)
       THEN [err |-> "failed to delete file", blobs |-> fs]
       ELSE IF relPath \notin DOMAIN fs
       THEN [err |-> "nil", blobs |-> fs]
       ELSE IF fs[relPath] = Directory /\ NotEmpty
       THEN [err |-> "failed to delete file", blobs |-> fs]
       ELSE [err |-> "nil",
             blobs |-> [k \in DOMAIN fs \ {relPath} |-> fs[k]]]

----------------------------------------------------------------------------
\* Orchestrator helpers

MaxFileSize == 5 * 1024 * 1024

AllowedExts == <<".jpg", ".jpeg", ".png", ".gif">>

DotTokens == {".jpg", ".JPG", ".jpeg", ".png", ".PNG", ".gif", ".pdf"}

\* filepath.Ext: the suffix beginning at the final dot, "" if there is none
Ext(filename) ==
    IF filename # <<>> /\ filename[Len(filename)] \in DotTokens
    THEN filename[Len(filename)] ELSE ""

\* strings.ToLower
ToLower(s) == IF s = ".JPG" THEN ".jpg" ELSE IF s = ".PNG" THEN ".png" ELSE s

\* the multipart file headers a request may carry
FileHeaders ==
    {Nil,
     Ptr([Filename |-> <<"test", ".jpg">>, Size |-> 100]),
     Ptr([Filename |-> <<"photo", ".JPG">>, Size |-> MaxFileSize]),
     Ptr([Filename |-> <<"image", ".png">>, Size |-> 1024]),
     Ptr([Filename |-> <<"doc", ".pdf">>, Size |-> 100]),
     Ptr([Filename |-> <<"big", ".jpg">>, Size |-> MaxFileSize + 1]),
     Ptr([Filename |-> <<"big", ".pdf">>, Size |-> MaxFileSize + 1]),
     Ptr([Filename |-> <<"noext">>, Size |-> 100])}

\* the file headers sent while requests of all kinds interleave
MixedFileHeaders ==
    {Ptr([Filename |-> <<"test", ".jpg">>, Size |-> 100]),
     Ptr([Filename |-> <<"image", ".png">>, Size |-> 1024]),
     Ptr([Filename |-> <<"doc", ".pdf">>, Size |-> 100])}

\* ValidateUpload that refuses a file of exactly the maximum size
ValidateUploadSizeGE(fileHeader) ==
    IF fileHeader = Nil THEN "ErrImageRequired"
    ELSE IF Deref(fileHeader).Size >= MaxFileSize THEN "ErrImageTooLarge"
    ELSE IF ~ \E i \in 1..Len(AllowedExts) :
                 ToLower(Ext(Deref(fileHeader).Filename)) = AllowedExts[i]
    THEN "ErrInvalidImageFormat"
    ELSE "nil"

\* the validation gate of UploadImage: the error it returns, "nil" to go on
ValidateUpload(fileHeader) ==
    IF fileHeader = Nil THEN "ErrImageRequired"
    ELSE IF Deref(fileHeader).Size > MaxFileSize THEN "ErrImageTooLarge"
    ELSE IF ~ \E i \in 1..Len(AllowedExts) :
                 ToLower(Ext(Deref(fileHeader).Filename)) = AllowedExts[i]
    THEN "ErrInvalidImageFormat"
    ELSE "nil"

HasPrefix(s, t) == s # <<>> /\ s[1] = t

\* strings.Split(s, "/uploads/")[1]: what lies between the first and the
\* second separator
RECURSIVE UpTo(_, _)
UpTo(s, sep) ==
    IF s = <<>> \/ s[1] = sep THEN <<>> ELSE <<s[1]>> \o UpTo(Tail(s), sep)

RECURSIVE After(_, _)
After(s, sep) ==
    IF s = <<>> THEN <<>> ELSE IF s[1] = sep THEN Tail(s) ELSE After(Tail(s), sep)

Contains(s, sep) == \E i \in 1..Len(s) : s[i] = sep

\* ExtractPath that hands the stored reference on as it is
ExtractPathKeepsURL(imageURL) == imageURL

\* "Extract relative path from URL if it's a full URL"
ExtractPath(imageURL) ==
    IF (HasPrefix(imageURL, "http://") \/ HasPrefix(imageURL, "https://"))
       /\ Contains(imageURL, "/uploads/")
    THEN UpTo(After(imageURL, "/uploads/"), "/uploads/")
    ELSE imageURL

\* HasImage with the comparison to "" the wrong way round
HasImageEmptyOnly(product) ==
    product.image_url # Nil /\ Deref(product.image_url) = EmptyString

\* ImageURL != nil && *ImageURL != ""
HasImage(product) ==
    product.image_url # Nil /\ Deref(product.image_url) # EmptyString

\* the ImageURL of a ProductResponse: nil for NULL and for ""
ResponseImageURL(product) ==
    IF product.image_url = Nil \/ Deref(product.image_url) = EmptyString
    THEN Nil ELSE product.image_url

\* MapNotFound that does not recognise the wrapped ErrNoRows
MapNotFoundWrapped(err) ==
    IF err = "nil" THEN "nil" ELSE "internal"

\* errors.Is(err, pgx.ErrNoRows) -> ErrProductNotFound, else wrapped
MapNotFound(err) ==
    IF err = "nil" THEN "nil"
    ELSE IF err = "ErrNoRows" THEN "ErrProductNotFound" ELSE "internal"

\* CreateProduct: unique violation 23505 -> ErrProductSKUExists, else wrapped
MapCreateError(err) ==
    IF err = "nil" THEN "nil"
    ELSE IF err = "23505" THEN "ErrProductSKUExists" ELSE "internal"

\* UpdateProduct: ErrNoRows, then unique violation, else wrapped
MapUpdateError(err) ==
    IF err = "nil" THEN "nil"
    ELSE IF err = "ErrNoRows" THEN "ErrProductNotFound"
    ELSE IF err = "23505" THEN "ErrProductSKUExists" ELSE "internal"

\* HandleError that knows no conflict
HandleErrorNoConflict(err) ==
    CASE err = "ErrProductNotFound" -> "NotFound"
      [] err = "ValidationErrors" -> "ValidationError"
      [] OTHER -> "InternalServerError"

\* response.HandleError: the kind of response for an orchestrator error
HandleError(err) ==
    CASE err = "ErrProductNotFound" -> "NotFound"
      [] err = "ErrProductSKUExists" -> "Conflict"
      [] err = "ValidationErrors" -> "ValidationError"
      [] err \in {"ErrInvalidProductStatus", "ErrProductIDRequired",
                  "ErrInvalidPrice", "ErrInvalidStock",
                  "ErrInvalidImageFormat", "ErrImageTooLarge", "ErrImageRequired"}
           -> "BadRequest"
      [] OTHER -> "InternalServerError"

\* the status of response.NotFound, Conflict, BadRequest, ValidationError
\* and InternalServerError
StatusCode(kind) ==
    CASE kind = "NotFound" -> 404
      [] kind = "Conflict" -> 409
      [] kind = "BadRequest" -> 400
      [] kind = "ValidationError" -> 422
      [] OTHER -> 500

\* the message HandleError passes on; response.ValidationError takes none
Message(err) ==
    CASE err = "ErrProductNotFound" -> "Product not found"
      [] err = "ErrProductSKUExists" -> "Product with this SKU already exists"
      [] err = "ValidationErrors" -> ""
      [] err = "ErrInvalidProductStatus" -> "Invalid product status"
      [] err = "ErrProductIDRequired" -> "Product ID is required"
      [] err = "ErrInvalidPrice" -> "Invalid price"
      [] err = "ErrInvalidStock" -> "Invalid stock"
      [] err = "ErrInvalidImageFormat" ->
           "Invalid image format, only JPG, JPEG, PNG, GIF are allowed"
      [] err = "ErrImageTooLarge" ->
           "Image file size exceeds maximum limit of 5MB"
      [] err = "ErrImageRequired" -> "Image file is required"
      [] OTHER -> "An unexpected error occurred"

\* validator.ValidationErrors.ToMap: the message of every field
ToMap(errs) == {<<errs[i].Field, errs[i].Message>> : i \in DOMAIN errs}

\* the response HandleError writes for a request that ended in an error
ErrorResponse(p) ==
    [status |-> StatusCode(HandleError(p.err)),
     message |-> Message(p.err),
     details |-> IF HandleError(p.err) = "ValidationError"
                 THEN ToMap(p.errs) ELSE {}]

----------------------------------------------------------------------------
\* Validator: every rule is tried, the violations are collected in order

\* validator.IsEmpty
IsEmpty(s) == s = ""

\* len() of a string kept as tokens
RECURSIVE TokensLen(_)
TokensLen(tokens) ==
    IF tokens = <<>> THEN 0 ELSE Len(tokens[1]) + TokensLen(Tail(tokens))

\* decimal.NewFromFloat(99999999.99)
MaxPrice == Decimal(99999999, 99)

ProductStatuses == {"Active", "Inactive"}

Hit(check) == check[1]

\* Violations that stops at the first check whose condition holds
ViolationsFailFast(checks) ==
    LET hits == SelectSeq(checks, Hit)
    IN IF hits = <<>> THEN <<>>
       ELSE <<[Field |-> hits[1][2], Message |-> hits[1][3]]>>

\* errs = append(errs, validator.ValidationError{Field, Message}) for every
\* check whose condition holds
Violations(checks) ==
    LET hits == SelectSeq(checks, Hit)
    IN [i \in 1..Len(hits) |-> [Field |-> hits[i][2], Message |-> hits[i][3]]]

\* CreateProductRequest.Validate
ValidateCreate(r) ==
    Violations(<<
      <<IsEmpty(r.SKU), "sku", "sku is required">>,
      <<Len(r.SKU) > 100, "sku", "sku must not exceed 100 characters">>,
      <<IsEmpty(r.Name), "name", "name is required">>,
      <<LessThan(r.Price, Zero), "price",
        "price must be greater than or equal to 0">>,
      <<GreaterThan(r.Price, MaxPrice), "price",
        "price must not exceed 99,999,999.99">>,
      <<r.Stock < 0, "stock", "stock must be greater than or equal to 0">>,
      <<IsEmpty(r.Category), "category", "category is required">>,
      <<Len(r.Category) > 100, "category",
        "category must not exceed 100 characters">>,
      <<r.Status \notin ProductStatuses, "status",
        "status must be either 'Active' or 'Inactive'">> >>)

\* ValidateUpdate that looks at the id alone
ValidateUpdateIdOnly(r) ==
    Violations(<< <<r.ID <= 0, "id", "id must be a positive integer">> >>)

\* UpdateProductRequest.Validate
ValidateUpdate(r) ==
    Violations(<<
      <<r.ID <= 0, "id", "id must be a positive integer">>,
      <<r.SKU # Nil /\ IsEmpty(Deref(r.SKU)), "sku", "sku must not be empty">>,
      <<r.SKU # Nil /\ Len(Deref(r.SKU)) > 100, "sku",
        "sku must not exceed 100 characters">>,
      <<r.Name # Nil /\ IsEmpty(Deref(r.Name)), "name",
        "name must not be empty">>,
      <<r.Price # Nil /\ LessThan(Deref(r.Price), Zero), "price",
        "price must be greater than or equal to 0">>,
      <<r.Price # Nil /\ GreaterThan(Deref(r.Price), MaxPrice), "price",
        "price must not exceed 99,999,999.99">>,
      <<r.Stock # Nil /\ Deref(r.Stock) < 0, "stock",
        "stock must be greater than or equal to 0">>,
      <<r.Category # Nil /\ IsEmpty(Deref(r.Category)), "category",
        "category must not be empty">>,
      <<r.Category # Nil /\ Len(Deref(r.Category)) > 100, "category",
        "category must not exceed 100 characters">>,
      <<r.Status # Nil /\ Deref(r.Status) \notin ProductStatuses, "status",
        "status must be either 'Active' or 'Inactive'">>,
      <<r.ImageURL # Nil /\ TokensLen(Deref(r.ImageURL)) > 2048, "image_url",
        "image_url must not exceed 2048 characters">> >>)

ValidSortFields == {"id", "sku", "name", "price", "stock", "category",
                    "status", "created_at", "updated_at"}

ValidSortOrders == {"asc", "desc"}

DefaultLimit == 20

\* ListProductFilter.Validate: the filter with its defaults filled in, and
\* the violations
ValidateList(f) ==
    [filter |->
        [f EXCEPT !.Page = IF IsZero(f.Page) THEN GoInt(0, 1) ELSE f.Page,
                  !.Limit = IF f.Limit = 0 THEN DefaultLimit ELSE f.Limit,
                  !.SortBy = IF f.SortBy = "" THEN "created_at" ELSE f.SortBy,
                  !.SortOrder = IF f.SortOrder = "" THEN "desc" ELSE f.SortOrder],
     errs |->
        Violations(<<
          <<IsNegative(f.Page), "page", "page must be a positive number">>,
          <<f.Limit < 0, "limit", "limit must be a positive number">>,
          <<f.Limit > 100, "limit", "limit must not exceed 100">>,
          <<f.MinPrice # Nil /\ FloatLess(Deref(f.MinPrice), Float(0, 0)),
            "min_price", "min_price must be greater than or equal to 0">>,
          <<f.MaxPrice # Nil /\ FloatLess(Deref(f.MaxPrice), Float(0, 0)),
            "max_price", "max_price must be greater than or equal to 0">>,
          <<f.MinPrice # Nil /\ f.MaxPrice # Nil
              /\ FloatLess(Deref(f.MaxPrice), Deref(f.MinPrice)),
            "price", "min_price must be less than or equal to max_price">>,
          <<f.SortBy # "" /\ f.SortBy \notin ValidSortFields, "sort_by",
            "sort_by must be one of: id, sku, name, price, stock, category, status, created_at, updated_at">>,
          <<f.SortOrder # "" /\ f.SortOrder \notin ValidSortOrders,
            "sort_order", "sort_order must be one of: asc, desc">>,
          <<f.Status # Nil /\ Deref(f.Status) \notin ProductStatuses, "status",
            "status must be either 'Active' or 'Inactive'">> >>)]

\* a string of 101 characters
LongString == "x" \o "0123456789012345678901234567890123456789"
                  \o "012345678901234567890123456789"
                  \o "012345678901234567890123456789"

\* POST bodies, valid and invalid in every field
CreateBodies ==
    {[SKU |-> sku, Name |-> name, Description |-> Nil, Price |-> price,
      Stock |-> stock, Category |-> category, Status |-> status] :
        sku \in {"SKU-001", "", LongString},
        name \in {"Original Name", ""},
        price \in {Decimal(-1, 99), Zero, Decimal(10000, 0), MaxPrice,
                   Decimal(100000000, 0)},
        stock \in {-1, 0},
        category \in {"Books", "", LongString},
        status \in {"Active", "Deleted"}}

\* PUT bodies with each field absent, valid or invalid
PutBodiesAnyValue ==
    {[ID |-> id, SKU |-> sku, Name |-> name, Description |-> Nil,
      Price |-> price, Stock |-> stock, Category |-> category,
      Status |-> status, ImageURL |-> imageURL] :
        id \in {-1, 0, 1},
        sku \in {Nil, Ptr("SKU-002"), Ptr("")},
        name \in {Nil, Ptr("")},
        price \in {Nil, Ptr(Decimal(-1, 99)), Ptr(MaxPrice),
                   Ptr(Decimal(100000000, 0))},
        stock \in {Nil, Ptr(-1)},
        category \in {Nil, Ptr(""), Ptr(LongString)},
        status \in {Nil, Ptr("Deleted")},
        imageURL \in {Nil, Ptr(ExternalURL)}}

\* the filter the handler builds from the query parameters
ListFilter(name, sku, category, status, minPrice, maxPrice, page, limit, sortBy, sortOrder) ==
    [Name |-> name, SKU |-> sku, Category |-> category, Status |-> status,
     MinPrice |-> minPrice, MaxPrice |-> maxPrice,
     Page |-> page, Limit |-> limit, SortBy |-> sortBy, SortOrder |-> sortOrder]

\* page 2^58 + 1 and page 2^62 + 1, as GoInt
HugePages == {GoInt(1, 1), GoInt(16, 1)}

\* queries that page through the whole table
PageFilters ==
    {ListFilter(Nil, Nil, Nil, Nil, Nil, Nil, page, limit, sortBy, sortOrder) :
        page \in {GoInt(0, k) : k \in 0..3} \cup HugePages,
        limit \in {0, 1, 2, 64},
        sortBy \in {"", "id", "price", "name"},
        sortOrder \in {"", "asc", "desc"}}

\* queries that select rows, all on one page
MatchFilters ==
    {ListFilter(name, sku, category, status, minPrice, maxPrice,
                GoInt(0, 1), 100, "id", "asc") :
        name \in {Nil, Ptr("updated"), Ptr("Zed")},
        sku \in {Nil, Ptr("sku-001")},
        category \in {Nil, Ptr("books"), Ptr("book"), Ptr("Electronics")},
        status \in {Nil, Ptr("Active")},
        minPrice \in {Nil, Ptr(Float(10000, 0)), Ptr(Float(10000, 1))},
        maxPrice \in {Nil, Ptr(Float(10000, 0))}}

ListFilters == PageFilters \cup MatchFilters

\* queries with each parameter absent, valid or invalid
FiltersAnyValue ==
    {ListFilter(Nil, Nil, Nil, status, minPrice, maxPrice,
                page, limit, sortBy, sortOrder) :
        status \in {Nil, Ptr("Deleted")},
        minPrice \in {Nil, Ptr(Float(-1, 99)), Ptr(Float(10, 0)), Ptr(NaN)},
        maxPrice \in {Nil, Ptr(Float(-1, 99)), Ptr(Float(5, 0))},
        page \in {GoInt(0, -1), GoInt(0, 0), GoInt(0, 1)},
        limit \in {-1, 0, 100, 101},
        sortBy \in {"", "price", "description"},
        sortOrder \in {"", "asc", "DESC"}}

----------------------------------------------------------------------------
\* Requests in flight

Idle ==
    [op |-> "none", pc |-> "idle", n |-> 0, id |-> 0, sku |-> "",
     req |-> NoUpdate,
     newProduct |-> Nil, fileHeader |-> Nil, product |-> Nil, ext |-> "",
     uploadedPath |-> <<>>, imageURL |-> <<>>, calls |-> <<>>,
     response |-> Nil, err |-> "", fault |-> FALSE,
     createReq |-> Nil, query |-> Nil, filter |-> Nil, errs |-> <<>>,
     sorted |-> <<>>]

\* the requests a run sends: POST bodies, PUT bodies, file headers and list
\* queries, and how many requests may await their response together
Workload(creates, puts, files, lists, conc) ==
    [creates |-> creates, puts |-> puts, files |-> files, lists |-> lists,
     conc |-> conc]

Init ==
    /\ rows = <<>>
    /\ idSeq = 0
    /\ now = 0
    /\ blobs = <<>>
    /\ proc = [r \in Procs |-> Idle]
    /\ started = 0
    /\ faults = 0
    /\ workload = Workload(CreateRequests, MixedPutBodies, MixedFileHeaders,
                           {}, MaxProcs)

\* a request arrives and is handed to the first free worker, unless the
\* workload's number of requests awaiting their response is reached
Arrive(r, p) ==
    /\ proc[r].pc = "idle"
    /\ \A q \in Procs : q < r => proc[q].pc # "idle"
    /\ Cardinality({q \in Procs : proc[q].pc # "idle"}) < workload.conc
    /\ started < MaxReqs
    /\ started' = started + 1
    /\ proc' = [proc EXCEPT ![r] = [p EXCEPT !.n = started + 1]]
    /\ UNCHANGED <<rows, idSeq, now, blobs, faults, workload>>

Called(p, name, path) == Append(p.calls, [call |-> name, path |-> path])

Return(p, e) == [p EXCEPT !.pc = "done", !.err = e]

\* Validated that hands every request on to the service
ValidatedGoesOn(p, errs) == p

\* the handler's req.Validate(): a request with violations is answered by
\* response.HandleError and the service is not called
Validated(p, errs) ==
    IF errs # <<>> THEN [Return(p, "ValidationErrors") EXCEPT !.errs = errs]
    ELSE p

\* POST /product
StartCreateProduct(r) ==
    /\ proc[r].pc = "idle"
    /\ \E req \in workload.creates :
        Arrive(r, Validated([Idle EXCEPT !.op = "CreateProduct", !.pc = "Create",
                                         !.createReq = Ptr(req),
                                         !.newProduct = Ptr(NewProduct(req))],
                            ValidateCreate(req)))

CreateProduct(r) ==
    /\ proc[r].op = "CreateProduct" /\ proc[r].pc = "Create"
    /\ idSeq < MaxId
    /\ LET res == Create(rows, idSeq, now + 1, Deref(proc[r].newProduct))
           p == [proc[r] EXCEPT !.calls = Called(proc[r], "Create", <<>>),
                                !.response = res.product]
       IN /\ rows' = res.rows
          /\ idSeq' = idSeq + 1
          /\ now' = now + 1
          /\ proc' = [proc EXCEPT ![r] = Return(p, MapCreateError(res.err))]
    /\ UNCHANGED <<blobs, started, faults, workload>>

\* GET /product/{id}
StartGetProduct(r) ==
    /\ proc[r].pc = "idle"
    /\ \E id \in Ids :
        Arrive(r, [Idle EXCEPT !.op = "GetProduct", !.pc = "GetByID", !.id = id])

GetProduct(r) ==
    /\ proc[r].op = "GetProduct" /\ proc[r].pc = "GetByID"
    /\ LET res == GetByID(rows, proc[r].id)
           p == [proc[r] EXCEPT !.calls = Called(proc[r], "GetByID", <<>>),
                                !.response =
                                   IF res.err = "nil"
                                   THEN Ptr([Deref(res.product) EXCEPT
                                               !.image_url =
                                                  ResponseImageURL(Deref(res.product))])
                                   ELSE Nil]
       IN proc' = [proc EXCEPT ![r] = Return(p, MapNotFound(res.err))]
    /\ UNCHANGED <<rows, idSeq, now, blobs, started, faults, workload>>

\* GET /product/sku/{sku}
StartGetProductBySKU(r) ==
    /\ proc[r].pc = "idle"
    /\ \E sku \in SKUs :
        Arrive(r, [Idle EXCEPT !.op = "GetProductBySKU", !.pc = "GetBySKU",
                               !.sku = sku])

GetProductBySKU(r) ==
    /\ proc[r].op = "GetProductBySKU" /\ proc[r].pc = "GetBySKU"
    /\ LET res == GetBySKU(rows, proc[r].sku)
           p == [proc[r] EXCEPT !.calls = Called(proc[r], "GetBySKU", <<>>),
                                !.response =
                                   IF res.err = "nil"
                                   THEN Ptr([Deref(res.product) EXCEPT
                                               !.image_url =
                                                  ResponseImageURL(Deref(res.product))])
                                   ELSE Nil]
       IN proc' = [proc EXCEPT ![r] = Return(p, MapNotFound(res.err))]
    /\ UNCHANGED <<rows, idSeq, now, blobs, started, faults, workload>>

\* PUT /product
StartUpdateProduct(r) ==
    /\ proc[r].pc = "idle"
    /\ \E req \in workload.puts :
        Arrive(r, Validated([Idle EXCEPT !.op = "UpdateProduct", !.pc = "Update",
                                         !.id = req.ID, !.req = req],
                            ValidateUpdate(req)))

UpdateProduct(r) ==
    /\ proc[r].op = "UpdateProduct" /\ proc[r].pc = "Update"
    /\ LET res == Update(rows, now + 1, proc[r].req)
           p == [proc[r] EXCEPT !.calls = Called(proc[r], "Update", <<>>)]
       IN /\ rows' = res.rows
          /\ now' = now + 1
          /\ proc' = [proc EXCEPT ![r] = Return(p, MapUpdateError(res.err))]
    /\ UNCHANGED <<idSeq, blobs, started, faults, workload>>

\* GET /product
StartListProducts(r) ==
    /\ proc[r].pc = "idle"
    /\ \E query \in workload.lists :
        LET v == ValidateList(query)
        IN Arrive(r, Validated([Idle EXCEPT !.op = "ListProducts",
                                            !.pc = "GetAll",
                                            !.query = Ptr(query),
                                            !.filter = Ptr(v.filter)],
                               v.errs))

\* ListProductResponse
ListResponse(filter, products, total) ==
    [TotalCount |-> total, Page |-> filter.Page, Limit |-> filter.Limit,
     TotalPages |-> (total + filter.Limit - 1) \div filter.Limit,
     Products |-> [i \in DOMAIN products |->
                     [products[i] EXCEPT
                        !.image_url = ResponseImageURL(products[i])]]]

ListProducts(r) ==
    /\ proc[r].op = "ListProducts" /\ proc[r].pc = "GetAll"
    /\ \E res \in GetAll(rows, Deref(proc[r].filter)) :
        LET filter == Deref(proc[r].filter)
            p == [proc[r] EXCEPT
                    !.calls = Called(proc[r], "GetAll",
                                     <<SortBy(filter), SortOrder(filter)>>),
                    !.sorted = res.order,
                    !.response =
                       IF res.err = "nil"
                       THEN Ptr(ListResponse(filter, res.products, res.total))
                       ELSE Nil]
        IN proc' = [proc EXCEPT ![r] = Return(p, res.err)]
    /\ UNCHANGED <<rows, idSeq, now, blobs, started, faults, workload>>

\* DELETE /product/{id}
StartDeleteProduct(r) ==
    /\ proc[r].pc = "idle"
    /\ \E id \in Ids :
        Arrive(r, [Idle EXCEPT !.op = "DeleteProduct", !.pc = "GetByID", !.id = id])

\* DeleteProduct: "Get product to check for image"
DeleteProductGet(r) ==
    /\ proc[r].op = "DeleteProduct" /\ proc[r].pc = "GetByID"
    /\ LET res == GetByID(rows, proc[r].id)
           p == [proc[r] EXCEPT !.calls = Called(proc[r], "GetByID", <<>>),
                                !.product = res.product]
       IN proc' = [proc EXCEPT ![r] =
                     IF res.err # "nil" THEN Return(p, MapNotFound(res.err))
                     ELSE [p EXCEPT !.pc = "Delete"]]
    /\ UNCHANGED <<rows, idSeq, now, blobs, started, faults, workload>>

\* DeleteProduct: "Delete product from database"
DeleteProductDelete(r) ==
    /\ proc[r].op = "DeleteProduct" /\ proc[r].pc = "Delete"
    /\ LET res == Delete(rows, proc[r].id)
           p == [proc[r] EXCEPT !.calls = Called(proc[r], "Delete", <<>>)]
       IN /\ rows' = res.rows
          /\ proc' = [proc EXCEPT ![r] =
                        IF res.err # "nil" THEN Return(p, MapNotFound(res.err))
                        ELSE IF HasImage(Deref(p.product))
                        THEN [p EXCEPT !.pc = "DeleteFile"]
                        ELSE Return(p, "nil")]
    /\ UNCHANGED <<idSeq, now, blobs, started, faults, workload>>

\* DeleteProduct: "Delete product image if exists"
DeleteProductCleanup(r) ==
    /\ proc[r].op = "DeleteProduct" /\ proc[r].pc = "DeleteFile"
    /\ LET imagePath == ExtractPath(Deref(Deref(proc[r].product).image_url))
           res == DeleteFile(blobs, imagePath)
           p == [proc[r] EXCEPT !.calls = Called(proc[r], "DeleteFile", imagePath)]
       IN /\ blobs' = res.blobs
          /\ proc' = [proc EXCEPT ![r] = Return(p, "nil")]
    /\ UNCHANGED <<rows, idSeq, now, started, faults, workload>>

\* POST /product/{id}/image
StartUploadImage(r) ==
    /\ proc[r].pc = "idle"
    /\ \E id \in Ids, fh \in workload.files :
        Arrive(r, [Idle EXCEPT !.op = "UploadImage", !.pc = "Validate",
                               !.id = id, !.fileHeader = fh])

\* UploadImage: file present, size, extension
UploadImageValidate(r) ==
    /\ proc[r].op = "UploadImage" /\ proc[r].pc = "Validate"
    /\ LET e == ValidateUpload(proc[r].fileHeader)
       IN proc' = [proc EXCEPT ![r] =
                     IF e # "nil" THEN Return(proc[r], e)
                     ELSE [proc[r] EXCEPT
                             !.pc = "GetByID",
                             !.ext = ToLower(Ext(Deref(proc[r].fileHeader).Filename))]]
    /\ UNCHANGED <<rows, idSeq, now, blobs, started, faults, workload>>

\* UploadImage: "Get existing product to check for old image"
UploadImageGet(r) ==
    /\ proc[r].op = "UploadImage" /\ proc[r].pc = "GetByID"
    /\ LET res == GetByID(rows, proc[r].id)
           p == [proc[r] EXCEPT !.calls = Called(proc[r], "GetByID", <<>>),
                                !.product = res.product]
       IN proc' = [proc EXCEPT ![r] =
                     IF res.err # "nil" THEN Return(p, MapNotFound(res.err))
                     ELSE [p EXCEPT !.pc = "UploadProductImage"]]
    /\ UNCHANGED <<rows, idSeq, now, blobs, started, faults, workload>>

\* UploadImage: "Upload file using fileService"
UploadImageStore(r) ==
    /\ proc[r].op = "UploadImage" /\ proc[r].pc = "UploadProductImage"
    /\ LET uniqueFilename == UniqueFilename(proc[r].id, proc[r].ext)
           res == UploadProductImage(blobs, IdStr(proc[r].id), proc[r].n,
                                     uniqueFilename)
           p == [proc[r] EXCEPT
                   !.calls = Called(proc[r], "UploadProductImage", res.path),
                   !.uploadedPath = res.path]
       IN /\ blobs' = res.blobs
          /\ proc' = [proc EXCEPT ![r] = [p EXCEPT !.pc = "GetFileURL"]]
    /\ UNCHANGED <<rows, idSeq, now, started, faults, workload>>

\* UploadImage: "Get full URL for the uploaded file"
UploadImageURL(r) ==
    /\ proc[r].op = "UploadImage" /\ proc[r].pc = "GetFileURL"
    /\ proc' = [proc EXCEPT ![r] =
                  [proc[r] EXCEPT
                     !.calls = Called(proc[r], "GetFileURL", proc[r].uploadedPath),
                     !.imageURL = GetFileURL(proc[r].uploadedPath),
                     !.pc = "Update"]]
    /\ UNCHANGED <<rows, idSeq, now, blobs, started, faults, workload>>

\* UploadImage: "Update product's image URL in the repository"
UploadImageUpdate(r) ==
    /\ proc[r].op = "UploadImage" /\ proc[r].pc = "Update"
    /\ LET updateReq == [NoUpdate EXCEPT !.ID = proc[r].id,
                                         !.ImageURL = Ptr(proc[r].imageURL)]
           res == Update(rows, now + 1, updateReq)
           p == [proc[r] EXCEPT !.calls = Called(proc[r], "Update", <<>>),
                                !.req = updateReq]
       IN /\ rows' = res.rows
          /\ now' = now + 1
          /\ proc' = [proc EXCEPT ![r] =
                        IF res.err # "nil" THEN Return(p, MapNotFound(res.err))
                        ELSE IF HasImage(Deref(p.product))
                        THEN [p EXCEPT !.pc = "DeleteFile"]
                        ELSE Return(p, "nil")]
    /\ UNCHANGED <<idSeq, blobs, started, faults, workload>>

\* UploadImage: "Delete old image if exists"
UploadImageCleanup(r) ==
    /\ proc[r].op = "UploadImage" /\ proc[r].pc = "DeleteFile"
    /\ LET oldImagePath == ExtractPath(Deref(Deref(proc[r].product).image_url))
           res == DeleteFile(blobs, oldImagePath)
           p == [proc[r] EXCEPT !.calls = Called(proc[r], "DeleteFile", oldImagePath)]
       IN /\ blobs' = res.blobs
          /\ proc' = [proc EXCEPT ![r] = Return(p, "nil")]
    /\ UNCHANGED <<rows, idSeq, now, started, faults, workload>>

\* DELETE /product/{id}/image
StartDeleteImage(r) ==
    /\ proc[r].pc = "idle"
    /\ \E id \in Ids :
        Arrive(r, [Idle EXCEPT !.op = "DeleteImage", !.pc = "GetByID", !.id = id])

\* DeleteImage: "Get product to check if image exists"
DeleteImageGet(r) ==
    /\ proc[r].op = "DeleteImage" /\ proc[r].pc = "GetByID"
    /\ LET res == GetByID(rows, proc[r].id)
           p == [proc[r] EXCEPT !.calls = Called(proc[r], "GetByID", <<>>),
                                !.product = res.product]
       IN proc' = [proc EXCEPT ![r] =
                     IF res.err # "nil" THEN Return(p, MapNotFound(res.err))
                     ELSE IF ~ HasImage(Deref(p.product))
                     THEN Return(p, "product has no image to delete")
                     ELSE [p EXCEPT !.pc = "DeleteFile"]]
    /\ UNCHANGED <<rows, idSeq, now, blobs, started, faults, workload>>

\* DeleteImage: "Delete the physical file"
DeleteImageFile(r) ==
    /\ proc[r].op = "DeleteImage" /\ proc[r].pc = "DeleteFile"
    /\ LET imagePath == ExtractPath(Deref(Deref(proc[r].product).image_url))
           res == DeleteFile(blobs, imagePath)
           p == [proc[r] EXCEPT !.calls = Called(proc[r], "DeleteFile", imagePath)]
       IN /\ blobs' = res.blobs
          /\ proc' = [proc EXCEPT ![r] = [p EXCEPT !.pc = "Update"]]
    /\ UNCHANGED <<rows, idSeq, now, started, faults, workload>>

\* DeleteImage: "Update product to remove image URL"
DeleteImageUpdate(r) ==
    /\ proc[r].op = "DeleteImage" /\ proc[r].pc = "Update"
    /\ LET updateReq == [NoUpdate EXCEPT !.ID = proc[r].id,
                                         !.ImageURL = Ptr(EmptyString)]
           res == Update(rows, now + 1, updateReq)
           p == [proc[r] EXCEPT !.calls = Called(proc[r], "Update", <<>>),
                                !.req = updateReq]
       IN /\ rows' = res.rows
          /\ now' = now + 1
          /\ proc' = [proc EXCEPT ![r] = Return(p, MapNotFound(res.err))]
    /\ UNCHANGED <<idSeq, blobs, started, faults, workload>>

StoreCalls == {"Create", "GetByID", "GetBySKU", "Update", "Delete"}
BlobCalls == {"UploadProductImage", "GetFileURL", "DeleteFile"}

\* CleanupFails that returns the delete's error instead of logging it
CleanupFailsPropagates(r) ==
    /\ proc[r].op \in {"DeleteProduct", "UploadImage"}
    /\ proc[r].pc = "DeleteFile"
    /\ faults < MaxFaults
    /\ faults' = faults + 1
    /\ LET path == ExtractPath(Deref(Deref(proc[r].product).image_url))
           p == [proc[r] EXCEPT !.calls = Called(proc[r], "DeleteFile", path),
                                !.fault = TRUE]
       IN proc' = [proc EXCEPT ![r] = Return(p, "internal")]
    /\ UNCHANGED <<rows, idSeq, now, blobs, started, workload>>

\* a cleanup delete of the Blob Store fails: "Log error but don't fail the
\* operation"
CleanupFails(r) ==
    /\ proc[r].op \in {"DeleteProduct", "UploadImage"}
    /\ proc[r].pc = "DeleteFile"
    /\ faults < MaxFaults
    /\ faults' = faults + 1
    /\ LET path == ExtractPath(Deref(Deref(proc[r].product).image_url))
           p == [proc[r] EXCEPT !.calls = Called(proc[r], "DeleteFile", path),
                                !.fault = TRUE]
       IN proc' = [proc EXCEPT ![r] = Return(p, "nil")]
    /\ UNCHANGED <<rows, idSeq, now, blobs, started, workload>>

\* CallFails in which DeleteImage logs a failed blob delete and goes on
CallFailsDeleteImageGoesOn(r) ==
    /\ proc[r].pc \in StoreCalls \cup BlobCalls
    /\ ~ (proc[r].op \in {"DeleteProduct", "UploadImage"} /\ proc[r].pc = "DeleteFile")
    /\ proc[r].pc = "Create" => idSeq < MaxId
    /\ faults < MaxFaults
    /\ faults' = faults + 1
    /\ LET p == [proc[r] EXCEPT !.calls = Called(proc[r], proc[r].pc, <<>>),
                                !.fault = TRUE]
       IN proc' = [proc EXCEPT ![r] =
                     IF proc[r].op = "DeleteImage" /\ proc[r].pc = "DeleteFile"
                     THEN [p EXCEPT !.pc = "Update"]
                     ELSE Return(p, "internal")]
    /\ UNCHANGED <<rows, idSeq, now, blobs, started, workload>>

\* any other store or blob call fails: the error is wrapped and returned
CallFails(r) ==
    /\ proc[r].pc \in StoreCalls \cup BlobCalls
    /\ ~ (proc[r].op \in {"DeleteProduct", "UploadImage"} /\ proc[r].pc = "DeleteFile")
    /\ proc[r].pc = "Create" => idSeq < MaxId
    /\ faults < MaxFaults
    /\ faults' = faults + 1
    /\ LET p == [proc[r] EXCEPT !.calls = Called(proc[r], proc[r].pc, <<>>),
                                !.fault = TRUE]
       IN proc' = [proc EXCEPT ![r] = Return(p, "internal")]
    /\ UNCHANGED <<rows, idSeq, now, blobs, started, workload>>

\* the response is written and the worker is free again
Respond(r) ==
    /\ proc[r].pc = "done"
    /\ proc' = [proc EXCEPT ![r] = Idle]
    /\ UNCHANGED <<rows, idSeq, now, blobs, started, faults, workload>>

Next ==
    \E r \in Procs :
        \/ StartCreateProduct(r) \/ CreateProduct(r)
        \/ StartGetProduct(r) \/ GetProduct(r)
        \/ StartUpdateProduct(r) \/ UpdateProduct(r)
        \/ StartDeleteProduct(r) \/ DeleteProductGet(r)
        \/ DeleteProductDelete(r) \/ DeleteProductCleanup(r)
        \/ StartUploadImage(r) \/ UploadImageValidate(r) \/ UploadImageGet(r)
        \/ UploadImageStore(r) \/ UploadImageURL(r) \/ UploadImageUpdate(r)
        \/ UploadImageCleanup(r)
        \/ StartDeleteImage(r) \/ DeleteImageGet(r) \/ DeleteImageFile(r)
        \/ DeleteImageUpdate(r)
        \/ Respond(r)

\* requests of all kinds, up to MaxProcs of them at a time
Spec == Init /\ [][Next]_vars

\* one request at a time, every file header
SeqInit ==
    /\ rows = <<>> /\ idSeq = 0 /\ now = 0 /\ blobs = <<>>
    /\ proc = [r \in Procs |-> Idle]
    /\ started = 0 /\ faults = 0
    /\ workload = Workload(CreateRequests, MixedPutBodies, FileHeaders, {}, 1)

SeqSpec == SeqInit /\ [][Next]_vars

\* the Product Store under one PUT body, any subset of the updatable fields
UpdateInit ==
    /\ rows = <<>> /\ idSeq = 0 /\ now = 0 /\ blobs = <<>>
    /\ proc = [r \in Procs |-> Idle]
    /\ started = 0 /\ faults = 0
    /\ \E body \in PutBodies :
          workload = Workload(CreateRequests, {body}, {}, {}, 1)

NextStore ==
    \E r \in Procs :
        \/ StartCreateProduct(r) \/ CreateProduct(r)
        \/ StartUpdateProduct(r) \/ UpdateProduct(r)
        \/ Respond(r)

UpdateSpec == UpdateInit /\ [][NextStore]_vars

\* the Product Store under one list query
ListInit ==
    /\ rows = <<>> /\ idSeq = 0 /\ now = 0 /\ blobs = <<>>
    /\ proc = [r \in Procs |-> Idle]
    /\ started = 0 /\ faults = 0
    /\ \E query \in ListFilters :
          workload = Workload(CreateRequests, {}, {}, {query}, 1)

NextList ==
    \E r \in Procs :
        \/ StartCreateProduct(r) \/ CreateProduct(r)
        \/ StartListProducts(r) \/ ListProducts(r)
        \/ Respond(r)

ListSpec == ListInit /\ [][NextList]_vars

\* one request of any kind and value next to two plain ones
ValidateInit ==
    /\ rows = <<>> /\ idSeq = 0 /\ now = 0 /\ blobs = <<>>
    /\ proc = [r \in Procs |-> Idle]
    /\ started = 0 /\ faults = 0
    /\ LET create == CreateRequest("SKU-001", 1)
           put == UpdateRequest(1, {"name"}, 2, "SKU-001")
           query == ListFilter(Nil, Nil, Nil, Nil, Nil, Nil,
                               GoInt(0, 0), 0, "", "")
       IN \/ \E c \in CreateBodies :
                workload = Workload({c}, {put}, {}, {query}, 1)
          \/ \E u \in PutBodiesAnyValue :
                workload = Workload({create}, {u}, {}, {query}, 1)
          \/ \E q \in FiltersAnyValue :
                workload = Workload({create}, {put}, {}, {q}, 1)

NextValidate ==
    \E r \in Procs :
        \/ StartCreateProduct(r) \/ CreateProduct(r)
        \/ StartUpdateProduct(r) \/ UpdateProduct(r)
        \/ StartListProducts(r) \/ ListProducts(r)
        \/ Respond(r)

ValidateSpec == ValidateInit /\ [][NextValidate]_vars

\* requests of all kinds, one at a time, the POST or the PUT body of any value
AnyValueInit ==
    /\ rows = <<>> /\ idSeq = 0 /\ now = 0 /\ blobs = <<>>
    /\ proc = [r \in Procs |-> Idle]
    /\ started = 0 /\ faults = 0
    /\ LET create == CreateRequest("SKU-001", 1)
           put == UpdateRequest(1, {"name"}, 2, "SKU-001")
           file == Ptr([Filename |-> <<"test", ".jpg">>, Size |-> 100])
       IN \/ \E c \in CreateBodies :
                workload = Workload({c}, {put}, {file}, {}, 1)
          \/ \E u \in PutBodiesAnyValue :
                workload = Workload({create}, {u}, {file}, {}, 1)

AnyValueSpec == AnyValueInit /\ [][Next]_vars

\* one row under two PUT bodies at a time, of any two sets of fields
PairInit ==
    /\ rows = <<>> /\ idSeq = 0 /\ now = 0 /\ blobs = <<>>
    /\ proc = [r \in Procs |-> Idle]
    /\ started = 0 /\ faults = 0
    /\ \E F, G \in SUBSET {"name", "price", "stock"} :
          workload = Workload({CreateRequest("SKU-001", 1)},
                              {UpdateRequest(1, F, 2, "SKU-001"),
                               UpdateRequest(1, G \cup {"status"}, 1, "SKU-001")},
                              {}, {}, MaxProcs)

PairSpec == PairInit /\ [][NextStore]_vars

\* the PUT bodies that carry a SKU and nothing else
SkuPutBodies ==
    {UpdateRequest(id, {"sku"}, 1, s) : id \in Ids, s \in SKUs}

\* the Product Store under up to MaxProcs creates and SKU updates at a time
SkuInit ==
    /\ rows = <<>> /\ idSeq = 0 /\ now = 0 /\ blobs = <<>>
    /\ proc = [r \in Procs |-> Idle]
    /\ started = 0 /\ faults = 0
    /\ workload = Workload(CreateRequests, SkuPutBodies, {}, {}, MaxProcs)

SkuSpec == SkuInit /\ [][NextStore]_vars

\* as Spec, with store and blob calls that may fail
NextFault ==
    \/ Next
    \/ \E r \in Procs : CleanupFails(r) \/ CallFails(r)

FaultSpec == SeqInit /\ [][NextFault]_vars

\* requests of every outcome, one at a time, with calls that may fail
ErrorInit ==
    /\ rows = <<>> /\ idSeq = 0 /\ now = 0 /\ blobs = <<>>
    /\ proc = [r \in Procs |-> Idle]
    /\ started = 0 /\ faults = 0
    /\ workload = Workload(CreateRequests,
                           MixedPutBodies
                             \cup {[NoUpdate EXCEPT !.Stock = Ptr(-1)]},
                           FileHeaders, {}, 1)

NextError ==
    \/ NextFault
    \/ \E r \in Procs : StartGetProductBySKU(r) \/ GetProductBySKU(r)

ErrorSpec == ErrorInit /\ [][NextError]_vars

\* a caller of the Blob Store is answered.  The paths handed in: inside the
\* base path, a directory, beside the base path under a name that begins
\* with its name, above it, back into it, rooted, and below a file
Answered(r, name) ==
    /\ proc[r].pc = "idle"
    /\ \A q \in Procs : q < r => proc[q].pc # "idle"
    /\ Cardinality({q \in Procs : proc[q].pc # "idle"}) < workload.conc
    /\ started < MaxReqs
    /\ started' = started + 1
    /\ \E path \in {<<"products", "1", "a.jpg">>,
                    <<"products", "1">>,
                    <<"..", "storage-old", "a.jpg">>,
                    <<"..", "..", "etc", "passwd">>,
                    <<"products", "..", "..", "storage", "b.jpg">>,
                    <<"/", "etc", "passwd">>,
                    <<"products", "1", "a.jpg", "x">>} :
        LET res == IF name = "Upload"
                   THEN LocalUpload(blobs, started + 1, path)
                   ELSE LocalDelete(blobs, path)
            p == [Idle EXCEPT !.op = name, !.n = started + 1,
                              !.calls = <<[call |-> name, path |-> path]>>]
        IN /\ blobs' = res.blobs
           /\ proc' = [proc EXCEPT ![r] = Return(p, res.err)]
    /\ UNCHANGED <<rows, idSeq, now, faults, workload>>

\* FileStorage.Upload
StorageUpload(r) == Answered(r, "Upload")

\* FileStorage.Delete
StorageDeleteCall(r) == Answered(r, "Delete")

\* NewLocalStorage: the base path and the directories above it exist
BlobInit ==
    /\ rows = <<>> /\ idSeq = 0 /\ now = 0
    /\ blobs = [d \in {Rel(BasePath, SubSeq(BasePath, 1, k)) :
                           k \in 1..Len(BasePath)} |-> Directory]
    /\ proc = [r \in Procs |-> Idle]
    /\ started = 0 /\ faults = 0
    /\ workload = Workload({}, {}, {}, {}, 1)

\* the Blob Store alone, called with paths of every kind
BlobSpec ==
    BlobInit /\ [][\E r \in Procs : \/ StorageUpload(r)
                                    \/ StorageDeleteCall(r)
                                    \/ Respond(r)]_vars

----------------------------------------------------------------------------
\* Properties

\* the request that worker r finishes in this step, and how
Finishes(r, op, pc) ==
    /\ proc[r].op = op /\ proc[r].pc = pc
    /\ proc'[r].op = op /\ proc'[r].pc = "done"

Done(r, op) == proc[r].op = op /\ proc[r].pc = "done"

\* the pointer a PUT body holds for a column
Carries(req, f) ==
    CASE f = "sku" -> req.SKU
      [] f = "name" -> req.Name
      [] f = "description" -> req.Description
      [] f = "price" -> req.Price
      [] f = "stock" -> req.Stock
      [] f = "category" -> req.Category
      [] f = "status" -> req.Status
      [] f = "image_url" -> req.ImageURL

Carried(req) == {f \in UpdatableFields : Carries(req, f) # Nil}

UniqueSKU ==
    \A i \in DOMAIN rows, j \in DOMAIN rows : i # j => rows[i].sku # rows[j].sku

\* a CreateProduct call succeeds exactly when no row holds its SKU; the
\* winner's row gets an id no row had, the loser leaves the table as it is
CreateStep(r) ==
    Finishes(r, "CreateProduct", "Create") =>
        LET sku == Deref(proc[r].newProduct).SKU
        IN IF \E j \in DOMAIN rows : rows[j].sku = sku
           THEN /\ proc'[r].err = "ErrProductSKUExists"
                /\ HandleError(proc'[r].err) = "Conflict"
                /\ rows' = rows
           ELSE /\ proc'[r].err = "nil"
                /\ \E id \in DOMAIN rows' \ DOMAIN rows :
                      /\ rows'[id].sku = sku
                      /\ DOMAIN rows' = DOMAIN rows \cup {id}
                /\ \A j \in DOMAIN rows : rows'[j] = rows[j]

\* an UpdateProduct call never leaves two rows with one SKU: it is refused
\* with SKUExists when another row holds the SKU it carries
UpdateSkuStep(r) ==
    (Finishes(r, "UpdateProduct", "Update") /\ proc[r].req.SKU # Nil
       /\ proc[r].id \in DOMAIN rows) =>
        IF \E j \in DOMAIN rows : j # proc[r].id /\ rows[j].sku = Deref(proc[r].req.SKU)
        THEN proc'[r].err = "ErrProductSKUExists" /\ rows' = rows
        ELSE proc'[r].err = "nil" /\ rows'[proc[r].id].sku = Deref(proc[r].req.SKU)

\* C1: in every interleaving of requests no two rows share a SKU; of the
\* CreateProduct calls with one SKU the one that finds it free succeeds and
\* every other fails with SKUExists without touching the winner's row
C1_UniqueSKU ==
    /\ [] UniqueSKU
    /\ [][\A r \in Procs : CreateStep(r) /\ UpdateSkuStep(r)]_vars

\* two CreateProduct requests with one SKU were in flight together: one
\* succeeded, the other got SKUExists, and one row holds the SKU
C1_Witness ==
    \E p \in Procs, q \in Procs :
        /\ Done(p, "CreateProduct") /\ Done(q, "CreateProduct")
        /\ proc[p].newProduct # Nil /\ proc[q].newProduct # Nil
        /\ Deref(proc[p].newProduct).SKU = Deref(proc[q].newProduct).SKU
        /\ proc[p].err = "nil" /\ proc[q].err = "ErrProductSKUExists"
        /\ proc[q].n < proc[p].n
        /\ Cardinality({j \in DOMAIN rows :
                          rows[j].sku = Deref(proc[p].newProduct).SKU}) = 1

Columns == UpdatableFields \cup {"id", "created_at", "updated_at"}

\* what a successful PUT with at least one field does to the table
UpdateFrame(r) ==
    (/\ Finishes(r, "UpdateProduct", "Update")
     /\ proc'[r].err = "nil"
     /\ Carried(proc[r].req) # {}) =>
        LET id == proc[r].req.ID
            F == Carried(proc[r].req)
        IN /\ id \in DOMAIN rows
           /\ DOMAIN rows' = DOMAIN rows
           /\ \A j \in DOMAIN rows \ {id} : rows'[j] = rows[j]
           /\ \A f \in F :
                 rows'[id][f] = IF f \in NullableColumns
                                THEN Carries(proc[r].req, f)
                                ELSE Deref(Carries(proc[r].req, f))
           /\ \A f \in Columns \ (F \cup {"updated_at"}) :
                 rows'[id][f] = rows[id][f]
           /\ rows'[id].updated_at = now'
           /\ rows'[id].updated_at > rows[id].updated_at

\* C3: a successful Update carrying the fields F sets the fields in F and
\* updated_at of the row with that id and leaves every other field of the
\* row, and every other row, as it was
C3_PartialUpdate == [][\A r \in Procs : UpdateFrame(r)]_vars

\* a PUT carrying only name has succeeded on one of two rows
C3_Witness ==
    \E r \in Procs :
        /\ Done(r, "UpdateProduct") /\ proc[r].err = "nil"
        /\ Carried(proc[r].req) = {"name"}
        /\ Cardinality(DOMAIN rows) = 2
        /\ rows[proc[r].id].name = "Updated Name"
        /\ rows[proc[r].id].updated_at > rows[proc[r].id].created_at

\* C4 as stated: UpdateProduct for an id without a row fails with
\* ProductNotFound (404) and leaves the store unchanged, whatever subset of
\* fields the request carries
C4_Original ==
    [][\A r \in Procs :
         (Finishes(r, "UpdateProduct", "Update") /\ proc[r].id \notin DOMAIN rows)
            => /\ proc'[r].err = "ErrProductNotFound"
               /\ HandleError(proc'[r].err) = "NotFound"
               /\ rows' = rows]_vars

\* C4 amended: UpdateProduct for an id without a row leaves the store
\* unchanged; it fails with ProductNotFound (404) when the request carries
\* at least one field and returns success when it carries none
C4_UpdateNotFound ==
    [][\A r \in Procs :
         (Finishes(r, "UpdateProduct", "Update") /\ proc[r].id \notin DOMAIN rows)
            => /\ rows' = rows
               /\ IF Carried(proc[r].req) # {}
                  THEN /\ proc'[r].err = "ErrProductNotFound"
                       /\ HandleError(proc'[r].err) = "NotFound"
                  ELSE proc'[r].err = "nil"]_vars

\* a PUT with fields for an id without a row, while another row exists, has
\* been answered ProductNotFound
C4_Witness ==
    \E r \in Procs :
        /\ Done(r, "UpdateProduct") /\ proc[r].err = "ErrProductNotFound"
        /\ proc[r].id \notin DOMAIN rows
        /\ Carried(proc[r].req) # {}
        /\ rows # <<>>

\* C5: an update request with only id set returns success and leaves the
\* whole store unchanged, updated_at of that row included
C5_NoOpUpdate ==
    [][\A r \in Procs :
         (Finishes(r, "UpdateProduct", "Update") /\ Carried(proc[r].req) = {})
            => /\ proc'[r].err = "nil"
               /\ rows' = rows
               /\ blobs' = blobs]_vars

\* a PUT with only id has succeeded on an existing row, whose updated_at is
\* still its created_at
C5_Witness ==
    \E r \in Procs :
        /\ Done(r, "UpdateProduct") /\ proc[r].err = "nil"
        /\ Carried(proc[r].req) = {}
        /\ proc[r].id \in DOMAIN rows
        /\ rows[proc[r].id].updated_at = rows[proc[r].id].created_at

\* the row references an image and GET /uploads/* finds its blob
ImageServed(row) ==
    /\ HasImage(row)
    /\ ServedBlob(Deref(row.image_url)) # Nil
    /\ Exists(blobs, Deref(ServedBlob(Deref(row.image_url))))

\* the blob an image reference is served from is not in the Blob Store
BlobGone(imageURL) ==
    ServedBlob(imageURL) # Nil => ~ Exists(blobs, Deref(ServedBlob(imageURL)))

\* C2: with one request at a time and no failing call, once UploadImage has
\* updated the row, and after it has returned success, the row references
\* an image whose blob is in the Blob Store
C2_Original ==
    \A r \in Procs :
        (/\ proc[r].op = "UploadImage"
         /\ ~ proc[r].fault
         /\ \/ proc[r].pc = "DeleteFile"
            \/ proc[r].pc = "done" /\ proc[r].err = "nil") =>
            /\ proc[r].id \in DOMAIN rows
            /\ ImageServed(rows[proc[r].id])

\* C6: UploadImage calls DeleteFile only for a prior image whose path
\* differs from the path the new blob was stored under
C6_Original ==
    \A r \in Procs :
        proc[r].op = "UploadImage" =>
            \A i \in 1..Len(proc[r].calls) :
                proc[r].calls[i].call = "DeleteFile" =>
                    /\ proc[r].product # Nil
                    /\ HasImage(Deref(proc[r].product))
                    /\ proc[r].calls[i].path # proc[r].uploadedPath

\* C7: after a successful UploadImage on a product without image the row
\* has an image_url whose blob exists; after a successful DeleteImage the
\* product's image_url reads as null and the blob it referenced is gone
C7_ImageRoundTrip ==
    \A r \in Procs :
        /\ (Done(r, "UploadImage") /\ proc[r].err = "nil"
              /\ ~ HasImage(Deref(proc[r].product))) =>
              /\ proc[r].id \in DOMAIN rows
              /\ ImageServed(rows[proc[r].id])
              /\ ResponseImageURL(rows[proc[r].id]) = Ptr(proc[r].imageURL)
        /\ (Done(r, "DeleteImage") /\ proc[r].err = "nil") =>
              /\ proc[r].id \in DOMAIN rows
              /\ ResponseImageURL(rows[proc[r].id]) = Nil
              /\ BlobGone(Deref(Deref(proc[r].product).image_url))

\* DeleteImage has succeeded on a product whose image was uploaded as .png:
\* the image_url is empty and the Blob Store holds nothing
C7_Witness ==
    \E r \in Procs :
        /\ Done(r, "DeleteImage") /\ proc[r].err = "nil"
        /\ Deref(proc[r].product).image_url =
              Ptr(GetURL(ProductImagePath(IdStr(proc[r].id),
                                          UniqueFilename(proc[r].id, ".png"))))
        /\ rows[proc[r].id].image_url = Ptr(EmptyString)
        /\ blobs = <<>>

\* C8: after a successful DeleteProduct of a product with an image, no call
\* having failed, the row is gone, GetProduct reports ProductNotFound and
\* the blob the product referenced is not in the Blob Store
C8_CascadeDelete ==
    \A r \in Procs :
        (/\ Done(r, "DeleteProduct") /\ proc[r].err = "nil"
         /\ ~ proc[r].fault
         /\ Deref(proc[r].product).image_url \notin {Nil, Ptr(EmptyString)}) =>
            /\ proc[r].id \notin DOMAIN rows
            /\ MapNotFound(GetByID(rows, proc[r].id).err) = "ErrProductNotFound"
            /\ BlobGone(Deref(Deref(proc[r].product).image_url))

\* DeleteProduct has succeeded on a product with an uploaded image
C8_Witness ==
    \E r \in Procs :
        /\ Done(r, "DeleteProduct") /\ proc[r].err = "nil"
        /\ Deref(proc[r].product).image_url =
              Ptr(GetURL(ProductImagePath(IdStr(proc[r].id),
                                          UniqueFilename(proc[r].id, ".jpg"))))
        /\ proc[r].id \notin DOMAIN rows
        /\ blobs = <<>>

GateErrors == {"ErrImageRequired", "ErrImageTooLarge", "ErrInvalidImageFormat"}

\* C9: UploadImage answers a missing file with ImageRequired, more than
\* 5 MiB with ImageTooLarge, an extension outside .jpg/.jpeg/.png/.gif
\* (compared in lower case) with InvalidImageFormat, in this order and
\* before any store or blob call; any other file passes the gate
C9_UploadGate ==
    \A r \in Procs :
        (proc[r].op = "UploadImage" /\ proc[r].pc # "Validate") =>
            LET fh == proc[r].fileHeader
                rejected(e) == /\ proc[r].pc = "done" /\ proc[r].err = e
                               /\ proc[r].calls = <<>>
            IN IF fh = Nil THEN rejected("ErrImageRequired")
               ELSE IF Deref(fh).Size > 5242880 THEN rejected("ErrImageTooLarge")
               ELSE IF ToLower(Ext(Deref(fh).Filename))
                          \notin {".jpg", ".jpeg", ".png", ".gif"}
               THEN rejected("ErrInvalidImageFormat")
               ELSE /\ proc[r].err \notin GateErrors
                    /\ proc[r].pc = "done" => proc[r].calls # <<>>

\* a .pdf of more than 5 MiB has been refused as too large, with no call made
C9_Witness ==
    \E r \in Procs :
        /\ Done(r, "UploadImage") /\ proc[r].err = "ErrImageTooLarge"
        /\ proc[r].fileHeader # Nil
        /\ Ext(Deref(proc[r].fileHeader).Filename) = ".pdf"
        /\ proc[r].calls = <<>>

ImageOps == {"DeleteProduct", "UploadImage", "DeleteImage"}

OnlyFetched(p) == p.calls = <<[call |-> "GetByID", path |-> <<>>]>>

\* C10 as stated: DeleteProduct, UploadImage and DeleteImage on an id
\* without a row fail with ProductNotFound and mutate nothing
C10_Original ==
    [][\A r \in Procs :
         (/\ proc[r].op \in ImageOps
          /\ proc[r].pc \in {"Validate", "GetByID"}
          /\ proc[r].id \notin DOMAIN rows
          /\ proc'[r] # proc[r]) =>
             /\ proc'[r].pc = "done" => proc'[r].err = "ErrProductNotFound"
             /\ proc[r].pc = "GetByID" => proc'[r].pc = "done" /\ OnlyFetched(proc'[r])
             /\ rows' = rows /\ blobs' = blobs]_vars

\* C10 amended: DeleteProduct, DeleteImage and an UploadImage whose file
\* passes the validation gate, on an id without a row, fail with
\* ProductNotFound after the fetch alone; an UploadImage whose file does
\* not pass fails with the gate's error; none of them mutates anything
C10_NotFoundNoMutation ==
    [][\A r \in Procs :
         (/\ proc[r].op \in ImageOps
          /\ proc[r].pc \in {"Validate", "GetByID"}
          /\ proc[r].id \notin DOMAIN rows
          /\ proc'[r] # proc[r]) =>
             /\ proc[r].pc = "Validate" =>
                   \/ proc'[r].pc = "GetByID"
                   \/ /\ proc'[r].pc = "done" /\ proc'[r].err \in GateErrors
                      /\ proc'[r].calls = <<>>
             /\ proc[r].pc = "GetByID" =>
                   /\ proc'[r].pc = "done"
                   /\ proc'[r].err = "ErrProductNotFound"
                   /\ HandleError(proc'[r].err) = "NotFound"
                   /\ OnlyFetched(proc'[r])
             /\ rows' = rows /\ blobs' = blobs]_vars

\* an UploadImage with a valid file for an id without a row has been
\* answered ProductNotFound while another product keeps its image
C10_Witness ==
    \E r \in Procs :
        /\ Done(r, "UploadImage") /\ proc[r].err = "ErrProductNotFound"
        /\ ValidateUpload(proc[r].fileHeader) = "nil"
        /\ proc[r].id \notin DOMAIN rows
        /\ OnlyFetched(proc[r])
        /\ \E j \in DOMAIN rows : ImageServed(rows[j])

\* the call that worker r makes in this step fails
Faulted(r) == ~ proc[r].fault /\ proc'[r].fault

\* C11: a failed blob delete in DeleteProduct's cascade or in UploadImage's
\* old-image cleanup ends the operation with success and the committed row
\* state stands (row deleted, resp. image_url the new image); any other
\* failed store or blob call of these operations ends them with a failure
C11_CleanupFailureSwallowed ==
    [][\A r \in Procs :
         (Faulted(r) /\ proc[r].op \in {"DeleteProduct", "UploadImage"}) =>
            /\ proc'[r].pc = "done"
            /\ IF proc[r].pc = "DeleteFile"
               THEN /\ proc'[r].err = "nil"
                    /\ proc[r].op = "DeleteProduct" =>
                          proc[r].id \notin DOMAIN rows'
                    /\ proc[r].op = "UploadImage" =>
                          /\ proc[r].id \in DOMAIN rows'
                          /\ rows'[proc[r].id].image_url = Ptr(proc[r].imageURL)
               ELSE /\ proc'[r].err # "nil"
                    /\ HandleError(proc'[r].err) = "InternalServerError"]_vars

\* an UploadImage that replaced a .png by a .jpg has returned success
\* although the delete of the old blob failed: the old blob is still there
C11_Witness ==
    \E r \in Procs :
        /\ Done(r, "UploadImage") /\ proc[r].fault /\ proc[r].err = "nil"
        /\ proc[r].ext = ".jpg"
        /\ rows[proc[r].id].image_url = Ptr(proc[r].imageURL)
        /\ Exists(blobs, ProductImagePath(IdStr(proc[r].id),
                                          UniqueFilename(proc[r].id, ".png")))
        /\ Exists(blobs, proc[r].uploadedPath)

\* C12: a failed blob delete in DeleteImage ends it with a failure, no row
\* update is attempted and the row's image_url stays as it was
C12_DeleteImageBlobFailure ==
    [][\A r \in Procs :
         (Faulted(r) /\ proc[r].op = "DeleteImage" /\ proc[r].pc = "DeleteFile") =>
            /\ proc'[r].pc = "done"
            /\ proc'[r].err # "nil"
            /\ \A i \in 1..Len(proc'[r].calls) : proc'[r].calls[i].call # "Update"
            /\ rows' = rows
            /\ rows'[proc[r].id].image_url = Deref(proc[r].product).image_url]_vars

\* DeleteImage has failed at the blob delete: the row still references the
\* uploaded image and the blob is still stored
C12_Witness ==
    \E r \in Procs :
        /\ Done(r, "DeleteImage") /\ proc[r].fault /\ proc[r].err = "internal"
        /\ proc[r].calls[Len(proc[r].calls)].call = "DeleteFile"
        /\ ImageServed(rows[proc[r].id])

\* C13: DeleteImage on an existing product without image fails with an
\* error that the boundary reports as 400, after the fetch alone
C13_Original ==
    \A r \in Procs :
        (/\ Done(r, "DeleteImage") /\ ~ proc[r].fault
         /\ proc[r].product # Nil
         /\ Deref(proc[r].product).image_url \in {Nil, Ptr(EmptyString)}) =>
            /\ proc[r].err # "nil"
            /\ HandleError(proc[r].err) = "BadRequest"
            /\ OnlyFetched(proc[r])

\* worker r, running op on product id, takes this step
Steps(r, op, id) ==
    proc[r].op = op /\ proc[r].id = id /\ proc'[r] # proc[r]

\* C14: a row's image_url changes only by an upload (to has-image) or by a
\* delete-image (from has-image to no-image), a row vanishes only by a
\* delete-product, and a new row starts without image
C14_Original ==
    [][\A id \in Ids :
         /\ (id \in DOMAIN rows /\ id \in DOMAIN rows'
               /\ rows'[id].image_url # rows[id].image_url) =>
               \E r \in Procs :
                  \/ Steps(r, "UploadImage", id) /\ HasImage(rows'[id])
                  \/ /\ Steps(r, "DeleteImage", id)
                     /\ HasImage(rows[id]) /\ ~ HasImage(rows'[id])
         /\ (id \in DOMAIN rows /\ id \notin DOMAIN rows') =>
               \E r \in Procs : Steps(r, "DeleteProduct", id)
         /\ (id \notin DOMAIN rows /\ id \in DOMAIN rows') =>
               ~ HasImage(rows'[id])]_vars

\* the least k with k * l >= n
Ceil(n, l) == CHOOSE k \in 0..n : k * l >= n /\ (k = 0 \/ (k - 1) * l < n)

Ids_(products) == [i \in DOMAIN products |-> products[i].id]

\* rows [from, to) of a result, counted from 0
Slice(order, from, to) == SubSeq(order, from + 1, to)

\* C15: for a valid filter with N matching rows and limit L, ListProducts
\* reports total_count N and total_pages ceil(N / L), and page p holds the
\* rows [(p-1)*L, min(p*L, N)) of the filtered, sorted set: none when
\* (p-1)*L >= N
C15_Original ==
    \A r \in Procs :
        (Done(r, "ListProducts") /\ proc[r].errs = <<>>) =>
            LET filter == Deref(proc[r].filter)
                N == Cardinality(Selected(rows, filter))
                L == filter.Limit
                p == filter.Page
            IN /\ proc[r].err = "nil"
               /\ Deref(proc[r].response).TotalCount = N
               /\ Deref(proc[r].response).TotalPages = Ceil(N, L)
               /\ proc[r].sorted \in Orders(rows, Selected(rows, filter),
                                            filter.SortBy, filter.SortOrder)
               /\ Ids_(Deref(proc[r].response).Products) =
                     IF p.hi > 0 \/ (p.lo - 1) * L >= N THEN <<>>
                     ELSE Slice(proc[r].sorted, (p.lo - 1) * L,
                                Min(p.lo * L, N))

\* x occurs in value, letter case aside
ContainsFold(value, x) ==
    LET v == FoldAll(Chars(value))
        w == FoldAll(Chars(x))
    IN \E i \in 0..Len(v) :
          i + Len(w) <= Len(v) /\ SubSeq(v, i + 1, i + Len(w)) = w

\* x is value, letter case aside
EqualFold(value, x) == FoldAll(Chars(value)) = FoldAll(Chars(x))

\* the filter's predicate as the specification words it
Satisfies(row, filter) ==
    /\ filter.Name # Nil => ContainsFold(row.name, Deref(filter.Name))
    /\ filter.SKU # Nil => ContainsFold(row.sku, Deref(filter.SKU))
    /\ filter.Category # Nil => EqualFold(row.category, Deref(filter.Category))
    /\ filter.Status # Nil => row.status = Deref(filter.Status)
    /\ filter.MinPrice # Nil => ~ LessThan(row.price, Deref(filter.MinPrice))
    /\ filter.MaxPrice # Nil => ~ LessThan(Deref(filter.MaxPrice), row.price)

\* C16: a list whose page holds the whole result returns exactly the rows
\* that satisfy every filter field that is present: name and sku contain
\* the given text, category equals it (both letter case aside), status
\* equals it, price lies within the inclusive bounds
C16_Original ==
    \A r \in Procs :
        (/\ Done(r, "ListProducts") /\ proc[r].err = "nil"
         /\ Deref(proc[r].filter).Page = GoInt(0, 1)
         /\ Deref(proc[r].filter).Limit >= Cardinality(DOMAIN rows)) =>
            {Deref(proc[r].response).Products[i].id :
                i \in DOMAIN Deref(proc[r].response).Products} =
            {id \in DOMAIN rows : Satisfies(rows[id], Deref(proc[r].filter))}

\* the request of worker p breaks a validation rule
Invalid(p) ==
    \/ p.op = "CreateProduct" /\ ValidateCreate(Deref(p.createReq)) # <<>>
    \/ p.op = "UpdateProduct" /\ ValidateUpdate(p.req) # <<>>
    \/ p.op = "ListProducts" /\ ValidateList(Deref(p.query)).errs # <<>>

SortAllowList == {"id", "sku", "name", "price", "stock", "category", "status",
                  "created_at", "updated_at"}

OrderAllowList == {"asc", "desc"}

\* C17: a create, update or list request that breaks a validation rule is
\* answered with a validation error without any call to the service or the
\* store, and every list query the store builds sorts by a column and in a
\* direction of the allow-lists
C17_ValidationGate ==
    \A r \in Procs :
        /\ Invalid(proc[r]) =>
              /\ proc[r].pc = "done"
              /\ HandleError(proc[r].err) = "ValidationError"
              /\ proc[r].calls = <<>>
        /\ \A i \in DOMAIN proc[r].calls :
              proc[r].calls[i].call = "GetAll" =>
                 /\ proc[r].calls[i].path[1] \in SortAllowList
                 /\ proc[r].calls[i].path[2] \in OrderAllowList

C17_Witness ==
    \E r \in Procs :
        /\ Done(r, "ListProducts")
        /\ Deref(proc[r].query).SortBy = "description"
        /\ HandleError(proc[r].err) = "ValidationError"
        /\ proc[r].calls = <<>>

\* a >= b for query numbers; nothing compares with NaN
AtLeast(a, b) == ~ a.nan /\ ~ b.nan /\ ~ LessThan(a, b)

\* the rules of a list query as the specification words them
FilterRulesMet(q) ==
    /\ ~ IsNegative(q.Page)
    /\ 0 <= q.Limit /\ q.Limit <= 100
    /\ q.MinPrice # Nil => AtLeast(Deref(q.MinPrice), Float(0, 0))
    /\ q.MaxPrice # Nil => AtLeast(Deref(q.MaxPrice), Float(0, 0))
    /\ (q.MinPrice # Nil /\ q.MaxPrice # Nil) =>
          AtLeast(Deref(q.MaxPrice), Deref(q.MinPrice))
    /\ q.SortBy = "" \/ q.SortBy \in SortAllowList
    /\ q.SortOrder = "" \/ q.SortOrder \in OrderAllowList
    /\ q.Status # Nil => Deref(q.Status) \in {"Active", "Inactive"}

\* C18: the validation of a list query succeeds exactly when the query meets
\* the rules, and then the filter has page >= 1 (1 for 0), limit in 1..100
\* (20 for 0), and created_at and desc for an unsupplied sort field and order
C18_Original ==
    \A r \in Procs :
        proc[r].op = "ListProducts" =>
            LET q == Deref(proc[r].query)
                f == Deref(proc[r].filter)
            IN /\ (proc[r].errs = <<>>) <=> FilterRulesMet(q)
               /\ proc[r].errs = <<>> =>
                     /\ ~ IsNegative(f.Page) /\ ~ IsZero(f.Page)
                     /\ f.Page = IF IsZero(q.Page) THEN GoInt(0, 1) ELSE q.Page
                     /\ 1 <= f.Limit /\ f.Limit <= 100
                     /\ f.Limit = IF q.Limit = 0 THEN 20 ELSE q.Limit
                     /\ f.SortBy = IF q.SortBy = "" THEN "created_at"
                                   ELSE q.SortBy
                     /\ f.SortOrder = IF q.SortOrder = "" THEN "desc"
                                      ELSE q.SortOrder

FieldIf(violated, field) == IF violated THEN {field} ELSE {}

\* 0 <= p <= 99999999.99, for a price of two decimals
PriceInRange(p) == 0 <= p.units /\ p.units <= 99999999

TextTooLong(str) == Len(str) > 100

\* the fields of a POST body that break their rule
CreateViolated(c) ==
    FieldIf(c.SKU = "" \/ TextTooLong(c.SKU), "sku")
      \cup FieldIf(c.Name = "", "name")
      \cup FieldIf(~ PriceInRange(c.Price), "price")
      \cup FieldIf(c.Stock < 0, "stock")
      \cup FieldIf(c.Category = "" \/ TextTooLong(c.Category), "category")
      \cup FieldIf(c.Status \notin {"Active", "Inactive"}, "status")

\* the fields of a PUT body that are present and break their rule, and id
UpdateViolated(u) ==
    FieldIf(~ (u.ID > 0), "id")
      \cup FieldIf(u.SKU # Nil /\ (Deref(u.SKU) = ""
                                     \/ TextTooLong(Deref(u.SKU))), "sku")
      \cup FieldIf(u.Name # Nil /\ Deref(u.Name) = "", "name")
      \cup FieldIf(u.Price # Nil /\ ~ PriceInRange(Deref(u.Price)), "price")
      \cup FieldIf(u.Stock # Nil /\ Deref(u.Stock) < 0, "stock")
      \cup FieldIf(u.Category # Nil
                     /\ (Deref(u.Category) = ""
                           \/ TextTooLong(Deref(u.Category))), "category")
      \cup FieldIf(u.Status # Nil
                     /\ Deref(u.Status) \notin {"Active", "Inactive"}, "status")

Fields(errs) == {errs[i].Field : i \in DOMAIN errs}

\* C19: the validation of a POST or PUT body reports exactly the fields that
\* break their rule, each once, all in one result; a PUT body's field is
\* judged only when present, and its id must be > 0
C19_AllViolations ==
    \A r \in Procs :
        /\ proc[r].op = "CreateProduct" =>
              /\ Fields(proc[r].errs) = CreateViolated(Deref(proc[r].createReq))
              /\ Len(proc[r].errs) = Cardinality(Fields(proc[r].errs))
        /\ proc[r].op = "UpdateProduct" =>
              /\ Fields(proc[r].errs) = UpdateViolated(proc[r].req)
              /\ Len(proc[r].errs) = Cardinality(Fields(proc[r].errs))

C19_Witness ==
    \E r \in Procs :
        /\ Done(r, "UpdateProduct")
        /\ proc[r].req.Name = Nil /\ proc[r].req.Stock = Nil
        /\ Fields(proc[r].errs) = {"id", "sku", "price", "category", "status"}

\* the price a request carries, if any
PriceOf(p) ==
    CASE p.op = "CreateProduct" -> Ptr(Deref(p.createReq).Price)
      [] p.op = "UpdateProduct" -> p.req.Price
      [] OTHER -> Nil

\* C20: the validation of a POST or PUT body accepts its price exactly when
\* 0 <= price <= 99999999.99: it accepts 99999999.99 and rejects
\* 100000000.00 and -0.01
C20_PriceRange ==
    \A r \in Procs :
        PriceOf(proc[r]) # Nil =>
            LET price == Deref(PriceOf(proc[r]))
                accepted == "price" \notin Fields(proc[r].errs)
            IN /\ accepted <=> PriceInRange(price)
               /\ price = Decimal(99999999, 99) => accepted
               /\ price = Decimal(100000000, 0) => ~ accepted
               /\ price = Decimal(-1, 99) => ~ accepted

C20_Witness ==
    \E r \in Procs :
        /\ Done(r, "CreateProduct") /\ proc[r].err = "nil"
        /\ Deref(proc[r].createReq).Price = Decimal(99999999, 99)
        /\ \E id \in DOMAIN rows : rows[id].price = Decimal(99999999, 99)

\* a row within the limits of the product table
RowValid(row) ==
    /\ PriceInRange(row.price)
    /\ row.stock >= 0
    /\ row.status \in {"Active", "Inactive"}
    /\ row.sku # "" /\ ~ TextTooLong(row.sku)
    /\ row.category # "" /\ ~ TextTooLong(row.category)

\* C21: whatever requests are served, every row has a price within
\* [0, 99999999.99], a stock >= 0, a status of Active or Inactive, and a
\* non-empty sku and category of at most 100 characters
C21_RowsValid == \A id \in DOMAIN rows : RowValid(rows[id])

C21_Witness ==
    \E r \in Procs :
        /\ Done(r, "UpdateProduct")
        /\ proc[r].req.ID \in DOMAIN rows
        /\ proc[r].req.Price = Ptr(Decimal(100000000, 0))
        /\ proc[r].req.Stock = Ptr(-1)
        /\ proc[r].calls = <<>>
        /\ rows[proc[r].req.ID].image_url # Nil

ImageErrors == {"ErrImageRequired", "ErrImageTooLarge", "ErrInvalidImageFormat"}

\* C22: a request that ends in an error is answered with 422 and the
\* violations by field for a validation failure, 404 for ProductNotFound,
\* 409 for SKUExists, 400 for the three image errors, and for every other
\* error 500 with one fixed message that holds nothing of the error
C22_ErrorMapping ==
    \A r \in Procs :
        (proc[r].pc = "done" /\ proc[r].err # "nil") =>
            LET resp == ErrorResponse(proc[r])
                err == proc[r].err
            IN CASE err = "ValidationErrors" ->
                      /\ resp.status = 422
                      /\ proc[r].errs # <<>>
                      /\ \A i \in DOMAIN proc[r].errs :
                            <<proc[r].errs[i].Field, proc[r].errs[i].Message>>
                               \in resp.details
                 [] err = "ErrProductNotFound" -> resp.status = 404
                 [] err = "ErrProductSKUExists" -> resp.status = 409
                 [] err \in ImageErrors -> resp.status = 400
                 [] OTHER ->
                      /\ resp.status = 500
                      /\ resp.message = "An unexpected error occurred"
                      /\ resp.message # err
                      /\ resp.details = {}

C22_Witness ==
    \E r \in Procs :
        /\ Done(r, "UpdateProduct") /\ proc[r].fault
        /\ proc[r].err = "internal"
        /\ ErrorResponse(proc[r]).status = 500
        /\ \E q \in workload.puts : ValidateUpdate(q) # <<>>

\* the rows a get request asks for: the one with its id, or with its sku
Asked(p) ==
    IF p.op = "GetProduct" THEN {id \in DOMAIN rows : id = p.id}
    ELSE {id \in DOMAIN rows : rows[id].sku = p.sku}

\* the view holds the row's values; an image_url of "" is shown as none
Shows(view, row) ==
    /\ \A c \in {"id", "sku", "name", "description", "price", "stock",
                  "category", "status", "created_at", "updated_at"} :
          view[c] = row[c]
    /\ view.image_url = IF row.image_url = Ptr(EmptyString) THEN Nil
                        ELSE row.image_url

\* C23: GetProduct and GetProductBySKU end in ProductNotFound exactly when
\* the store has no row for the id or sku; a store call that fails ends in
\* an internal error that is not ProductNotFound; on success the view shows
\* the values of the row with that id or sku
C23_GetMapping ==
    [][\A r \in Procs :
         (Finishes(r, "GetProduct", "GetByID")
            \/ Finishes(r, "GetProductBySKU", "GetBySKU")) =>
            IF Faulted(r)
            THEN proc'[r].err \notin {"nil", "ErrProductNotFound"}
            ELSE /\ (proc'[r].err = "ErrProductNotFound") <=>
                       (Asked(proc[r]) = {})
                 /\ Asked(proc[r]) # {} =>
                       /\ proc'[r].err = "nil"
                       /\ \E id \in Asked(proc[r]) :
                             Shows(Deref(proc'[r].response), rows[id])]_vars

C23_Witness ==
    \E r \in Procs :
        /\ Done(r, "GetProductBySKU") /\ proc[r].err = "nil"
        /\ Deref(proc[r].response).sku = proc[r].sku
        /\ Deref(proc[r].response).id = 2
        /\ Cardinality(DOMAIN rows) > 1

\* the value a PUT body sets a column to
Sets(req, f) ==
    IF f \in NullableColumns THEN Carries(req, f) ELSE Deref(Carries(req, f))

\* worker r commits its update of an existing row while worker q has an
\* update of the same row under way or just committed
Overlaps(r, q) ==
    /\ q # r
    /\ Finishes(r, "UpdateProduct", "Update")
    /\ proc[q].op = "UpdateProduct" /\ proc[q].req.ID = proc[r].req.ID
    /\ proc[r].req.ID \in DOMAIN rows

\* C24: of two partial updates of one row that are served at a time both
\* succeed; each sets its own fields and leaves every other field as the
\* other update left it, so that once both have committed the row has the
\* values of both, and for a field both set the value of the later commit
C24_ConcurrentUpdates ==
    /\ [][\A r, q \in Procs :
            Overlaps(r, q) =>
               /\ proc'[r].err = "nil"
               /\ \A f \in Carried(proc[r].req) :
                     rows'[proc[r].req.ID][f] = Sets(proc[r].req, f)
               /\ \A f \in UpdatableFields \ Carried(proc[r].req) :
                     rows'[proc[r].req.ID][f] = rows[proc[r].req.ID][f]]_vars
    /\ [](\A r, q \in Procs :
            (/\ r # q /\ started = 3
             /\ Done(r, "UpdateProduct") /\ Done(q, "UpdateProduct")
             /\ proc[r].req.ID = proc[q].req.ID
             /\ proc[r].err = "nil" /\ proc[q].err = "nil"
             /\ proc[r].req.ID \in DOMAIN rows) =>
                /\ \A f \in Carried(proc[r].req) \ Carried(proc[q].req) :
                      rows[proc[r].req.ID][f] = Sets(proc[r].req, f)
                /\ \A f \in Carried(proc[r].req) \cap Carried(proc[q].req) :
                      rows[proc[r].req.ID][f]
                         \in {Sets(proc[r].req, f), Sets(proc[q].req, f)})

C24_Witness ==
    \E r, q \in Procs :
        /\ Done(r, "UpdateProduct") /\ Done(q, "UpdateProduct")
        /\ Carried(proc[r].req) = {"name", "price"}
        /\ Carried(proc[q].req) = {"stock", "status"}
        /\ proc[r].err = "nil" /\ proc[q].err = "nil"
        /\ 1 \in DOMAIN rows
        /\ rows[1].name = "Updated Name"
        /\ rows[1].price = Decimal(99999999, 99)
        /\ rows[1].stock = 100 /\ rows[1].status = "Active"

\* worker r gets a success from the store's Update, for a request with at
\* least one field: that of a PUT, an UploadImage or a DeleteImage
Updates(r) ==
    /\ proc[r].pc = "Update" /\ proc'[r].pc # "Update"
    /\ ~ proc'[r].fault
    /\ proc'[r].err \in {"", "nil"}
    /\ Carried(proc'[r].req) # {}

\* C25: no row is ever updated before it was created, and every successful
\* update with at least one field, those of image_url alone by UploadImage
\* and DeleteImage among them, sets updated_at to the store's time
C25_UpdatedAt ==
    /\ [](\A id \in DOMAIN rows : rows[id].updated_at >= rows[id].created_at)
    /\ [][\A r \in Procs :
            Updates(r) =>
               /\ now' > now
               /\ rows'[proc'[r].req.ID].updated_at = now'
               /\ rows'[proc'[r].req.ID].updated_at
                     > rows[proc'[r].req.ID].updated_at]_vars

C25_Witness ==
    \E r \in Procs :
        /\ Done(r, "DeleteImage") /\ proc[r].err = "nil"
        /\ Carried(proc[r].req) = {"image_url"}
        /\ rows[proc[r].id].updated_at = now
        /\ rows[proc[r].id].updated_at > rows[proc[r].id].created_at + 1

\* what the call of a step of the Blob Store was handed, and where it is
CallPath(r) == proc[r].calls[1].path

\* the location is the base path or below it
Within(abs) ==
    Len(abs) >= Len(BasePath) /\ SubSeq(abs, 1, Len(BasePath)) = BasePath

Calls(r, name) == proc[r].pc = "idle" /\ proc'[r].op = name

\* C26: an Upload with a path that resolves to a location which is neither
\* the base path nor below it fails with the invalid-path error and creates
\* no file and no directory, so that nothing is written outside the base path
C26_Original ==
    [][\A r \in Procs :
         (Calls(r, "Upload") /\ ~Within(AbsFullPath(CallPath(r)')))
            => /\ proc'[r].err = "invalid file path"
               /\ blobs' = blobs]_vars

\* the Delete of a step leaves an absent object absent and everything else
\* as it was, and a second Delete of the path answers and leaves what the
\* first did
Absent(fs, path) == Rel(BasePath, AbsFullPath(path)) \notin DOMAIN fs

DeleteOutcome(fs, path) ==
    IF ~StringsHasPrefix(PathString(AbsFullPath(path)), PathString(BasePath))
    THEN "invalid file path"
    ELSE IF NotDir(fs, AbsFullPath(path)) THEN "failed to delete file"
    ELSE "nil"

\* C27: a Delete of a path whose object is absent changes nothing and
\* returns success when the path passes the store's base-path test and no
\* element of it is a file, the invalid-path error when it does not pass the
\* test and the delete error when an element of it is a file; a second
\* Delete of the same path has the result and the final state of the first
C27_DeleteIdempotent ==
    [][\A r \in Procs :
         Calls(r, "Delete")
            => LET path == CallPath(r)'
                   again == LocalDelete(blobs', path)
               IN /\ Absent(blobs, path)
                        => /\ blobs' = blobs
                           /\ proc'[r].err = DeleteOutcome(blobs, path)
                  /\ again.err = proc'[r].err
                  /\ again.blobs = blobs']_vars

\* C27 as stated: every Delete of an absent object returns success
C27_Original ==
    [][\A r \in Procs :
         (Calls(r, "Delete") /\ Absent(blobs, CallPath(r)'))
            => /\ proc'[r].err = "nil"
               /\ blobs' = blobs]_vars

\* a Delete of products/1/a.jpg has succeeded in a store that holds a file
\* and never had the directory products
C27_Witness ==
    \E r \in Procs :
        /\ proc[r].pc = "done" /\ proc[r].op = "Delete"
        /\ proc[r].err = "nil"
        /\ CallPath(r) = <<"products", "1", "a.jpg">>
        /\ <<"products">> \notin DOMAIN blobs
        /\ \E k \in DOMAIN blobs : blobs[k] # Directory

\* the row worker r fetched is in the Product Store as it was fetched
RowAsFetched(r) ==
    proc[r].product # Nil =>
        /\ proc[r].id \in DOMAIN rows
        /\ rows[proc[r].id] = Deref(proc[r].product)

\* C28: with one request at a time, an UploadImage that has returned an
\* error has left the row as it fetched it and no blob of its file in the
\* Blob Store, neither new nor written over an old one
C28_Original ==
    \A r \in Procs :
        (Done(r, "UploadImage") /\ proc[r].err # "nil") =>
            /\ RowAsFetched(r)
            /\ \A k \in DOMAIN blobs : blobs[k] # proc[r].n

\* the row's image is one that UploadImage stores for it
Uploaded(row) ==
    \E i \in 1..Len(AllowedExts) :
        row.image_url =
            Ptr(GetFileURL(ProductImagePath(IdStr(row.id),
                                            UniqueFilename(row.id, AllowedExts[i]))))

\* C29: with one request at a time, a DeleteImage that has returned an error
\* has left the row as it fetched it, and the blob of a row with an uploaded
\* image is still in the Blob Store
C29_Original ==
    \A r \in Procs :
        (Done(r, "DeleteImage") /\ proc[r].err # "nil") =>
            /\ RowAsFetched(r)
            /\ (proc[r].product # Nil /\ Uploaded(rows[proc[r].id])) =>
                  ~ BlobGone(Deref(rows[proc[r].id].image_url))

\* C30: once two image requests for one product, two UploadImage or an
\* UploadImage and a DeleteImage, have both returned, whatever the order of
\* their steps, a row of the product with an uploaded image references a
\* blob that is in the Blob Store
C30_Original ==
    \A r, q \in Procs :
        (/\ r # q
         /\ Done(r, "UploadImage")
         /\ Done(q, "UploadImage") \/ Done(q, "DeleteImage")
         /\ proc[r].id = proc[q].id
         /\ proc[r].id \in DOMAIN rows
         /\ Uploaded(rows[proc[r].id])) =>
            ~ BlobGone(Deref(rows[proc[r].id].image_url))

====
